---- MODULE Spec2Model ----
(***************************************************************************)
(* Model of the auto-scaling decision engine.                              *)
(*                                                                         *)
(* The repository holds two ScalingManager implementations in package      *)
(* scaler: src/unnamed/part_004 (forecast fetched from the HTTP prediction *)
(* service, strategy selected by the PatternAnalyzer, delay gate and       *)
(* pre-warm) and src/unnamed/part_005 (embedded ARIMA forecaster).  Both   *)
(* are modelled; the variable impl says which one the engine was built     *)
(* from.                                                                   *)
(*                                                                         *)
(* float64 values are modelled as exact rationals <<num, den>> in lowest   *)
(* terms with den > 0.  Durations and instants are counted in units of     *)
(* 30 seconds.  Memory is counted in quanta of 256 MiB.                    *)
(***************************************************************************)
EXTENDS Integers, Sequences, FiniteSets, TLC

VARIABLES
    impl,            \* "http" (part_004) or "arima" (part_005)
    hpa,             \* HPAModifierSpec of the target (read-only for the engine)
    status,          \* HPAModifierStatus: currentReplicas, predictedLoad, lastScaledTime
    replicas,        \* spec.replicas of the target deployment in the orchestrator
    now,             \* wall clock
    historyWindow,   \* PatternAnalyzer.historyWindow
    sampleInterval,  \* PatternAnalyzer.sampleInterval
    historyData,     \* PatternAnalyzer.historyData: workload key -> samples
    predictor,       \* ARIMAPredictor buffer: data and timestamps
    lastCall         \* observable outcome of the last engine call

vars == <<impl, hpa, status, replicas, now, historyWindow, sampleInterval,
          historyData, predictor, lastCall>>

(***************************************************************************)
(* Bounds of the model.                                                    *)
(***************************************************************************)
MaxTime == 10        \* the clock stops advancing here
MaxData == 4         \* cap on the forecaster's buffer length (part_005 cycles)
MaxHistory == 3      \* cap on the samples recorded per key by part_004 cycles
MaxWindowCfg == 3    \* largest historyWindow drawn for the analyzer runs
MaxCalls == 4        \* AnalyzePattern calls of a run that logs the values passed
MaxOrder == 1        \* largest p, d, q of the forecasters built directly
MaxBuffer == 3       \* samples added to a forecaster built directly
MaxSteps == 2        \* largest steps handed to Predict directly
MaxSamples == 7      \* GetStrategy calls explored from an empty history
MaxTail == 3         \* GetStrategy calls explored after a recorded history
MaxPods == 2         \* pods in an answer of the metrics provider built from the pool
NumCallers == 2      \* goroutines running cycles on one engine at the same time
MaxAppends == 3      \* samples recorded in a run with concurrent callers

(***************************************************************************)
(* Rational arithmetic.                                                    *)
(***************************************************************************)
Abs(x) == IF x < 0 THEN -x ELSE x

RECURSIVE GCD(_, _)
GCD(a, b) == IF b = 0 THEN a ELSE GCD(b, a % b)

\* n/d in lowest terms with a positive denominator; g = gcd(|n|, |d|)
Reduce(n, d, g) == IF d < 0 THEN <<(-n) \div g, (-d) \div g>> ELSE <<n \div g, d \div g>>
Rat(n, d) == Reduce(n, d, GCD(Abs(n), Abs(d)))

RInt(n) == <<n, 1>>
RZero == <<0, 1>>
RAdd(a, b) == Rat(a[1] * b[2] + b[1] * a[2], a[2] * b[2])
RSub(a, b) == Rat(a[1] * b[2] - b[1] * a[2], a[2] * b[2])
RMul(a, b) == Rat(a[1] * b[1], a[2] * b[2])
RDiv(a, b) == Rat(a[1] * b[2], a[2] * b[1])        \* b # 0
\* a/b < c/d for b, d > 0, by integer parts and then the reciprocals of the
\* fractional parts (no product is formed)
RECURSIVE FractionLess(_, _, _, _)
FractionLess(a, b, c, d) ==
    IF a \div b # c \div d THEN a \div b < c \div d
    ELSE IF c % d = 0 THEN FALSE
    ELSE IF a % b = 0 THEN TRUE
    ELSE FractionLess(d, c % d, b, a % b)
RLess(a, b) == FractionLess(a[1], a[2], b[1], b[2])
RMax(a, b) == IF RLess(a, b) THEN b ELSE a
RAbs(a) == <<Abs(a[1]), a[2]>>
\* math.Ceil followed by the conversion to int32
RCeil(a) == -((-a[1]) \div a[2])

RECURSIVE RSumUpTo(_, _)
RSumUpTo(s, n) == IF n = 0 THEN RZero ELSE RAdd(RSumUpTo(s, n - 1), s[n])
RSum(s) == RSumUpTo(s, Len(s))

(***************************************************************************)
(* PatternAnalyzer (src/internal/scaler/pattern.go).                       *)
(***************************************************************************)
PatternStable == 0
PatternPeriodic == 1
PatternBurst == 2

calculateMean(data) == RDiv(RSum(data), RInt(Len(data)))

RSquare(x) == RMul(x, x)

\* the sum of (data[i] - mean)^2 over the first n samples
SquaredDeviations(data, mean, n) ==
    RSum([i \in 1..n |-> RSquare(RSub(data[i], mean))])

\* the sum of (data[i] - mean) * (data[i+lag] - mean) over the overlapping pairs
LaggedProducts(data, mean, lag) ==
    RSum([i \in 1..(Len(data) - lag) |->
            RMul(RSub(data[i], mean), RSub(data[i + lag], mean))])

\* numerator / denominator, 0 when the denominator is 0
Correlation(numerator, denominator) ==
    IF denominator = RZero THEN RZero ELSE RDiv(numerator, denominator)

\* calculateStdDev returns the square root of this value
calculateVariance(data, mean) ==
    RDiv(SquaredDeviations(data, mean, Len(data)), RInt(Len(data)))

\* autocorr[lag] of detectPeriodicity: the loop starts at lag 1, autocorr[0]
\* keeps the zero value; the denominator is summed inside the loop over i
periodicityAutocorr(data, mean, lag) ==
    IF lag = 0 THEN RZero
    ELSE Correlation(LaggedProducts(data, mean, lag),
                     SquaredDeviations(data, mean, Len(data) - lag))

\* the array autocorr; index i here is index i-1 of the source
autocorrArray(data, mean) ==
    [i \in 1..(Len(data) \div 2) |-> periodicityAutocorr(data, mean, i - 1)]

peakCount(autocorr) ==
    Cardinality({i \in 2..(Len(autocorr) - 1) :
                    /\ RLess(autocorr[i - 1], autocorr[i])
                    /\ RLess(autocorr[i + 1], autocorr[i])
                    /\ RLess(Rat(1, 2), autocorr[i])})

detectPeriodicity(data) ==
    IF Len(data) < 4 THEN FALSE
    ELSE peakCount(autocorrArray(data, calculateMean(data))) >= 2

\* (faulty variant for sensitivity runs: changeStdDev > changeMean)
changesExceedMean(changes, changeMean) ==
    RLess(RSquare(changeMean), calculateVariance(changes, changeMean))

\* changeStdDev > 2*changeMean, compared as squares (both sides are >= 0)
changesAreBursty(changes, changeMean) ==
    RLess(RMul(RInt(4), RSquare(changeMean)), calculateVariance(changes, changeMean))

absoluteChanges(data) ==
    [i \in 1..(Len(data) - 1) |-> RAbs(RSub(data[i + 1], data[i]))]

burstTest(changes) == changesAreBursty(changes, calculateMean(changes))

detectBurst(data) ==
    IF Len(data) < 2 THEN FALSE ELSE burstTest(absoluteChanges(data))

\* cv < 0.2 for cv = stdDev / mean: 0/0 is NaN and x/0 is +Inf, and the
\* comparison is false for both; a negative mean makes cv <= 0
cvTest(data, mean) ==
    IF mean = RZero THEN FALSE
    ELSE IF RLess(mean, RZero) THEN TRUE
    ELSE RLess(RMul(RInt(25), calculateVariance(data, mean)), RSquare(mean))

cvBelowThreshold(data) == cvTest(data, calculateMean(data))

\* (faulty variant for sensitivity runs: the periodicity test is consulted
\* before the burst test)
determinePeriodicFirst(data) ==
    IF Len(data) < 2 THEN PatternStable
    ELSE IF detectPeriodicity(data) THEN PatternPeriodic
    ELSE IF detectBurst(data) THEN PatternBurst
    ELSE IF cvBelowThreshold(data) THEN PatternStable
    ELSE PatternPeriodic

\* (faulty variant for sensitivity runs: one sample is taken as enough data)
determineFromOne(data) ==
    IF Len(data) < 1 THEN PatternStable
    ELSE IF detectBurst(data) THEN PatternBurst
    ELSE IF detectPeriodicity(data) THEN PatternPeriodic
    ELSE IF cvBelowThreshold(data) THEN PatternStable
    ELSE PatternPeriodic

determinePattern(data) ==
    IF Len(data) < 2 THEN PatternStable
    ELSE IF detectBurst(data) THEN PatternBurst
    ELSE IF detectPeriodicity(data) THEN PatternPeriodic
    ELSE IF cvBelowThreshold(data) THEN PatternStable
    ELSE PatternPeriodic

\* int(pa.historyWindow / pa.sampleInterval)
windowSize(hw, si) == hw \div si

\* the trim of AnalyzePattern: the last w samples
\* (faulty variant for sensitivity runs: no trim)
TrimNoLimit(h, w) == h
\* (faulty variant for sensitivity runs: the oldest w samples are kept)
TrimKeepOldest(h, w) == IF Len(h) > w THEN SubSeq(h, 1, w) ELSE h
TrimHistory(h, w) ==
    IF Len(h) > w THEN SubSeq(h, Len(h) - w + 1, Len(h)) ELSE h

\* (faulty variant for sensitivity runs: the sample is recorded under every key)
AppendToEveryKey(history, key, value, hw, si) ==
    [k \in DOMAIN history |-> TrimHistory(Append(history[k], value), windowSize(hw, si))]

\* historyData after the append and the trim of AnalyzePattern
AppendHistory(history, key, value, hw, si) ==
    [history EXCEPT ![key] = TrimHistory(Append(@, value), windowSize(hw, si))]

(***************************************************************************)
(* ScalingStrategy / StrategyFactory (src/unnamed/part_003).               *)
(***************************************************************************)
StableDelay == 10        \* 5 * time.Minute
PeriodicDelay == 4       \* 2 * time.Minute
BurstDelay == 1          \* 30 * time.Second
PreWarmLead == 30        \* 15 * time.Minute

NewStableStrategy ==
    [pattern |-> PatternStable, delay |-> StableDelay, threshold |-> <<4, 5>>,
     preWarm |-> FALSE, preWarmTime |-> 0]
NewPeriodicStrategy ==
    [pattern |-> PatternPeriodic, delay |-> PeriodicDelay, threshold |-> <<7, 10>>,
     preWarm |-> TRUE, preWarmTime |-> PreWarmLead]
NewBurstStrategy ==
    [pattern |-> PatternBurst, delay |-> BurstDelay, threshold |-> <<3, 5>>,
     preWarm |-> FALSE, preWarmTime |-> 0]

\* (faulty variant for sensitivity runs: every pattern gets the Stable strategy)
StrategyAlwaysStable(pattern) == NewStableStrategy

\* the switch of GetStrategy on the pattern AnalyzePattern returned
StrategyFor(pattern) ==
    CASE pattern = PatternStable -> NewStableStrategy
      [] pattern = PatternPeriodic -> NewPeriodicStrategy
      [] pattern = PatternBurst -> NewBurstStrategy
      [] OTHER -> NewStableStrategy

(***************************************************************************)
(* The target and the answers of the metrics provider.                     *)
(***************************************************************************)
TargetName == <<"nginx", "deployment">>      \* names are split at "-"
WorkloadKey(ns, name) == <<ns, name>>        \* fmt.Sprintf("%s/%s", ns, name)
Keys == {WorkloadKey("default", TargetName), WorkloadKey("default", <<"api">>)}

\* HPAModifier objects the engine is run on: the spec, the initial
\* status.currentReplicas and the replicas of the deployment
Targets ==
    { [namespace |-> "default", name |-> TargetName, minReplicas |-> 1, maxReplicas |-> 10,
       cpuThreshold |-> <<7, 10>>, memThreshold |-> <<4, 5>>, predictionWindow |-> 2,
       initStatus |-> 1, initReplicas |-> 1],
      [namespace |-> "default", name |-> TargetName, minReplicas |-> 2, maxReplicas |-> 3,
       cpuThreshold |-> <<1, 2>>, memThreshold |-> <<1, 2>>, predictionWindow |-> 1,
       initStatus |-> 0, initReplicas |-> 2] }

MilliPerCore == 1000     \* MilliValue() / 1000.0
QuantaPerGB == 4         \* Value() / (1024*1024*1024), in quanta of 256 MiB

Container(cpu, mem) == [cpu |-> cpu, memory |-> mem]
Pod(name, app, containers) == [name |-> name, app |-> app, containers |-> containers]

\* answers of MetricsClient.GetPodMetrics: an error or the list of pod metrics
PodMetricsAnswers ==
    { [err |-> TRUE, items |-> <<>>],
      [err |-> FALSE,
       items |-> <<Pod(<<"redis", "0">>, <<"redis">>, <<Container(900, 2)>>)>>],
      [err |-> FALSE,
       items |-> <<Pod(<<"nginx", "deployment", "9d9b", "64sbk">>, <<"nginx">>,
                       <<Container(700, 1)>>)>>],
      [err |-> FALSE,
       items |-> <<Pod(<<"web", "1">>, TargetName, <<Container(700, 1), Container(2100, 1)>>),
                   Pod(<<"redis", "0">>, <<"redis">>, <<Container(900, 2)>>),
                   Pod(<<"nginx", "deployment", "x">>, <<"nginx">>, <<>>)>>] }

IsPrefix(s, t) == Len(s) <= Len(t) /\ SubSeq(t, 1, Len(s)) = s
\* strings.HasPrefix(pod.Name, name + "-")
HasNamePrefix(podName, name) == IsPrefix(name, podName) /\ Len(podName) > Len(name)

\* (faulty variant for sensitivity runs: every pod counts)
MatchesAll(pod, name) == TRUE
MatchesTarget(pod, name) == pod.app = name \/ HasNamePrefix(pod.name, name)

RECURSIVE IntSumUpTo(_, _)
IntSumUpTo(s, n) == IF n = 0 THEN 0 ELSE IntSumUpTo(s, n - 1) + s[n]
IntSum(s) == IntSumUpTo(s, Len(s))

\* the usage summed over the containers of the matched pods
TotalUsage(items, matched, field) ==
    IntSum([i \in 1..Len(items) |->
              IF i \in matched
              THEN IntSum([c \in 1..Len(items[i].containers) |-> items[i].containers[c][field]])
              ELSE 0])

AverageUsage(items, matched, podCount) ==
    IF podCount = 0
    THEN [err |-> "nopods", cpu |-> RZero, memory |-> RZero]
    ELSE [err |-> "nil",
          cpu |-> RDiv(Rat(TotalUsage(items, matched, "cpu"), podCount), RInt(MilliPerCore)),
          memory |-> RDiv(Rat(TotalUsage(items, matched, "memory"), podCount),
                          RInt(QuantaPerGB))]

MatchedPods(items, name) == {i \in 1..Len(items) : MatchesTarget(items[i], name)}

\* (faulty variant for sensitivity runs: the divisor counts every pod listed)
AverageOverListed(items, matched) == AverageUsage(items, matched, Len(items))
AverageOver(items, matched) == AverageUsage(items, matched, Cardinality(matched))

\* CollectMetrics, from the answer of the metrics provider on
CollectMetrics(answer, name) ==
    IF answer.err THEN [err |-> "metrics", cpu |-> RZero, memory |-> RZero]
    ELSE AverageOver(answer.items, MatchedPods(answer.items, name))

\* the two range checks that follow the computation of desiredReplicas
ClampLower(d, min) == IF d < min THEN min ELSE d
ClampUpper(d, max) == IF d > max THEN max ELSE d
\* (faulty variant for sensitivity runs: the upper check left out)
ClampNoUpper(d, min, max) == ClampLower(d, min)
ClampReplicas(d, min, max) == ClampUpper(ClampLower(d, min), max)

(***************************************************************************)
(* ARIMAPredictor (src/internal/predictor/arima.go).                       *)
(***************************************************************************)
NewARIMAPredictor(p, d, q) ==
    [p |-> p, d |-> d, q |-> q, data |-> <<>>, timestamps |-> <<>>]

AddDataPoint(a, timestamp, value) ==
    [a EXCEPT !.data = Append(@, value), !.timestamps = Append(@, timestamp)]

\* one pass of difference: diff[i-1] = data[i] - data[i-1] for the first n samples
RECURSIVE differenceOnce(_, _)
differenceOnce(data, n) ==
    IF n < 2 THEN <<>>
    ELSE Append(differenceOnce(data, n - 1), RSub(data[n], data[n - 1]))

RECURSIVE difference(_, _)
difference(data, order) ==
    IF order = 0 THEN data
    ELSE difference(differenceOnce(data, Len(data)), order - 1)

correlationAt(data, lag, mean) ==
    Correlation(LaggedProducts(data, mean, lag), SquaredDeviations(data, mean, Len(data)))

autoCorrelation(data, lag) ==
    IF lag >= Len(data) THEN RZero ELSE correlationAt(data, lag, calculateMean(data))

\* arCoef[j] * diffData[len(diffData)-j-1], j the 0-based index of the source
arTerm(diffData, j) ==
    IF Len(diffData) - j - 1 >= 0
    THEN RMul(autoCorrelation(diffData, j + 1), diffData[Len(diffData) - j])
    ELSE RZero

\* the AR sum over the differenced series plus the last sample, added d times
arValue(a, diffData) ==
    RAdd(RSum([j \in 1..a.p |-> arTerm(diffData, j - 1)]),
         RMul(RInt(a.d), a.data[Len(a.data)]))

\* the value every step of Predict gets
predictValue(a) == arValue(a, difference(a.data, a.d))

\* (faulty variant for sensitivity runs: no length guard)
EnoughAlways(a) == TRUE
EnoughData(a) == Len(a.data) >= a.p + a.d + a.q

\* (faulty variant for sensitivity runs: every step adds the previous step's
\* value to its own)
forecastFedBack(lastTimestamp, interval, steps, value) ==
    [i \in 1..steps |-> [Timestamp |-> lastTimestamp + interval * i,
                         Value |-> RMul(RInt(i), value)]]
forecast(lastTimestamp, interval, steps, value) ==
    [i \in 1..steps |-> [Timestamp |-> lastTimestamp + interval * i, Value |-> value]]

\* Predict: "insufficient" below p+d+q samples; "panic" when make gets a
\* negative length or timestamps[len-1], timestamps[len-2] is read out of range
Predict(a, steps) ==
    IF ~EnoughData(a) THEN [err |-> "insufficient", points |-> <<>>]
    ELSE IF steps < 0 \/ Len(a.timestamps) < 2 THEN [err |-> "panic", points |-> <<>>]
    ELSE [err |-> "nil",
          points |-> forecast(a.timestamps[Len(a.timestamps)],
                              a.timestamps[Len(a.timestamps)]
                                  - a.timestamps[Len(a.timestamps) - 1],
                              steps, predictValue(a))]

\* var max float64; for each value: if value > max then max = value
RECURSIVE MaxFromZero(_, _)
MaxFromZero(values, n) ==
    IF n = 0 THEN RZero ELSE RMax(MaxFromZero(values, n - 1), values[n])
MaxLoad(values) == MaxFromZero(values, Len(values))


(***************************************************************************)
(* ScalingManager.CalculateDesiredReplicas, both implementations.          *)
(***************************************************************************)
NoValue == -1            \* an int32 that a call did not produce
NoTime == -1             \* status.lastScaledTime = nil

\* (faulty variant for sensitivity runs: a count of 0 is scaled as if it were 1)
ScaledFromOne(currentReplicas, ratio) ==
    RCeil(RMul(RInt(IF currentReplicas = 0 THEN 1 ELSE currentReplicas), ratio))
\* int32(math.Ceil(float64(currentReplicas) * ratio))
ScaledReplicas(currentReplicas, ratio) == RCeil(RMul(RInt(currentReplicas), ratio))

\* the tail of CalculateDesiredReplicas: scale status.currentReplicas by the
\* ratio, clamp, return both
desiredFor(h, st, ratio) ==
    [err |-> "nil",
     desired |-> ClampReplicas(ScaledReplicas(st.currentReplicas, ratio),
                               h.minReplicas, h.maxReplicas),
     ratio |-> ratio]

NoDesired == [err |-> "predict", desired |-> NoValue, ratio |-> RZero]

\* part_004: q1, q2 are the answers of queryPrediction("cpu") and ("memory")
CalculateDesiredReplicasHTTP(h, st, q1, q2) ==
    IF q1.err \/ q2.err THEN NoDesired
    ELSE desiredFor(h, st, RMax(RDiv(MaxLoad(q1.values), h.cpuThreshold),
                                RDiv(MaxLoad(q2.values), h.memThreshold)))

forecastValues(points) == [i \in 1..Len(points) |-> points[i].Value]

desiredFromForecast(h, st, pred) ==
    IF pred.err # "nil" THEN NoDesired
    ELSE desiredFor(h, st, MaxLoad(forecastValues(pred.points)))

\* part_005, after AddDataPoint: a is the predictor holding the new sample
CalculateDesiredReplicasARIMA(h, st, a) ==
    desiredFromForecast(h, st, Predict(a, h.predictionWindow))

\* the sample CalculateDesiredReplicas of part_005 feeds the predictor
LoadSample(h, cpuUsage, memoryUsage) ==
    RMax(RDiv(cpuUsage, h.cpuThreshold), RDiv(memoryUsage, h.memThreshold))

(***************************************************************************)
(* ScalingManager.ScaleWorkload: what both implementations share.          *)
(***************************************************************************)
\* answers of queryPrediction and of the scale subresource
PredictionAnswers ==
    { [err |-> TRUE, values |-> <<>>],
      [err |-> FALSE, values |-> <<>>],
      [err |-> FALSE, values |-> << <<7, 10>> >>],
      [err |-> FALSE, values |-> << <<7, 20>>, <<3, 1>> >>] }
MemoryAnswers ==
    { [err |-> TRUE, values |-> <<>>],
      [err |-> FALSE, values |-> << <<2, 5>> >>] }
ScaleAnswers == {"ok", "getscale", "updatescale"}
Unasked == [err |-> FALSE, values |-> <<>>]

\* the answers to a call that the cycle makes; a call it does not make has none
AnswersIf(asked, answers, unasked) == IF asked THEN answers ELSE {unasked}

\* the record of the last call: the operation, the error it returned, the
\* external calls it made in order, the answer of the metrics provider, the
\* pattern GetStrategy found, the result of CalculateDesiredReplicas, the
\* desired count and load ratio, the count desired was compared with, whether
\* the delay check ended the call, and the counts handed to UpdateScale
NoPodMetrics == [err |-> FALSE, items |-> <<>>]
Idle ==
    [op |-> "none", err |-> "nil", calls |-> <<>>, podMetrics |-> NoPodMetrics,
     pattern |-> NoValue, calcDesired |-> NoValue, desired |-> NoValue,
     loadRatio |-> RZero, current |-> NoValue, gated |-> FALSE, sent |-> <<>>]

Started(m) ==
    [Idle EXCEPT !.op = "ScaleWorkload", !.calls = <<"GetPodMetrics">>, !.podMetrics = m]

Failed(call, err) == [call EXCEPT !.err = err]

\* the state a call leaves behind
Return(call, history, pred, st, rep) ==
    /\ lastCall' = call
    /\ historyData' = history
    /\ predictor' = pred
    /\ status' = st
    /\ replicas' = rep

\* (faulty variant for sensitivity runs: a clock that runs backwards)
StatusUpdateReversedClock(st, desired, loadRatio, t) ==
    [currentReplicas |-> desired, predictedLoad |-> loadRatio, lastScaledTime |-> MaxTime - t]

\* (faulty variant for sensitivity runs: the count in the status is not
\* refreshed)
StatusKeepsCount(st, desired, loadRatio, t) ==
    [currentReplicas |-> st.currentReplicas, predictedLoad |-> loadRatio,
     lastScaledTime |-> t]

\* the status written after a successful update
StatusUpdate(st, desired, loadRatio, t) ==
    [currentReplicas |-> desired, predictedLoad |-> loadRatio, lastScaledTime |-> t]

\* (faulty variant for sensitivity runs: the status is written before the
\* orchestrator's answer is looked at)
UpdateReplicasStatusFirst(call, u, history, pred) ==
    Return([call EXCEPT !.err = IF u = "ok" THEN "nil" ELSE u,
                        !.calls = @ \o <<"GetScale", "UpdateScale">>,
                        !.sent = Append(@, call.desired)],
           history, pred, StatusUpdate(status, call.desired, call.loadRatio, now),
           IF u = "ok" THEN call.desired ELSE replicas)

\* (faulty variant for sensitivity runs: a failed UpdateScale is sent again)
UpdateReplicasRetrying(call, u, history, pred) ==
    IF u = "getscale"
    THEN Return([call EXCEPT !.err = "getscale", !.calls = Append(@, "GetScale")],
                history, pred, status, replicas)
    ELSE IF u = "updatescale"
    THEN Return([call EXCEPT !.err = "updatescale",
                             !.calls = @ \o <<"GetScale", "UpdateScale", "UpdateScale">>,
                             !.sent = @ \o <<call.desired, call.desired>>],
                history, pred, status, replicas)
    ELSE Return([call EXCEPT !.calls = @ \o <<"GetScale", "UpdateScale">>,
                             !.sent = Append(@, call.desired)],
                history, pred,
                StatusUpdate(status, call.desired, call.loadRatio, now), call.desired)

\* GetScale, UpdateScale and the status update; u is the orchestrator's answer
UpdateReplicas(call, u, history, pred) ==
    IF u = "getscale"
    THEN Return([call EXCEPT !.err = "getscale", !.calls = Append(@, "GetScale")],
                history, pred, status, replicas)
    ELSE IF u = "updatescale"
    THEN Return([call EXCEPT !.err = "updatescale",
                             !.calls = @ \o <<"GetScale", "UpdateScale">>,
                             !.sent = Append(@, call.desired)],
                history, pred, status, replicas)
    ELSE Return([call EXCEPT !.calls = @ \o <<"GetScale", "UpdateScale">>,
                             !.sent = Append(@, call.desired)],
                history, pred,
                StatusUpdate(status, call.desired, call.loadRatio, now), call.desired)

(***************************************************************************)
(* ScalingManager.ScaleWorkload of part_004.                               *)
(***************************************************************************)
\* (faulty variant for sensitivity runs: the pre-warm count always replaces
\* the desired count)
raiseAlways(predictedReplicas, desired) == predictedReplicas

\* the pre-warm count: ceil(minReplicas * maxPredictedLoad) if it is larger
raiseTo(predictedReplicas, desired) ==
    IF predictedReplicas > desired THEN predictedReplicas ELSE desired

preWarmFor(strategy, minReplicas, desired, maxPredictedLoad) ==
    IF RLess(strategy.threshold, maxPredictedLoad)
    THEN raiseTo(RCeil(RMul(RInt(minReplicas), maxPredictedLoad)), desired)
    ELSE desired

\* the desired count after the pre-warm step (the query answered `values`)
PreWarmReplicas(strategy, minReplicas, desired, values) ==
    IF strategy.preWarm /\ Len(values) > 0
    THEN preWarmFor(strategy, minReplicas, desired, MaxLoad(values))
    ELSE desired

\* time.Since(lastScaledTime.Time) < strategy.GetScalingDelay()
\* (faulty variant for sensitivity runs: the delay never applies)
DelayNeverPending(lastScaledTime, t, delay) == FALSE
\* (faulty variant for sensitivity runs: the delay never runs out)
DelayAlwaysPending(lastScaledTime, t, delay) == TRUE
DelayPending(lastScaledTime, t, delay) == t - lastScaledTime < delay

\* the delay check and the update, once the current replicas are known
GateOrUpdate(call, strategy, history) ==
    IF /\ call.current # call.desired
       /\ status.lastScaledTime # NoTime
       /\ DelayPending(status.lastScaledTime, now, strategy.delay)
    THEN Return([call EXCEPT !.gated = TRUE], history, predictor, status, replicas)
    ELSE \E u \in ScaleAnswers : UpdateReplicas(call, u, history, predictor)

\* (faulty variant for sensitivity runs: a failed read of the deployment is
\* noted but the update is sent all the same)
ReadThenUpdateAnyway(call, strategy, history) ==
    \E g \in BOOLEAN :
        IF ~g
        THEN UpdateReplicas(Failed(call, "getreplicas"), "ok", history, predictor)
        ELSE GateOrUpdate([call EXCEPT !.current = replicas], strategy, history)

\* getCurrentReplicas; g says whether reading the deployment succeeded
ReadAndDecide(call, strategy, history) ==
    \E g \in BOOLEAN :
        IF ~g
        THEN Return(Failed(call, "getreplicas"), history, predictor, status, replicas)
        ELSE GateOrUpdate([call EXCEPT !.current = replicas], strategy, history)

\* the pre-warm step; q3 is the answer to its queryPrediction("cpu")
PreWarmAndDecide(call, strategy, history) ==
    \E q3 \in AnswersIf(strategy.preWarm, PredictionAnswers, Unasked) :
        IF strategy.preWarm /\ q3.err
        THEN Return(Failed([call EXCEPT !.calls = Append(@, "queryPrediction")], "predict"),
                    history, predictor, status, replicas)
        ELSE ReadAndDecide(
                 [call EXCEPT !.desired = PreWarmReplicas(strategy, hpa.minReplicas,
                                                          call.calcDesired, q3.values),
                              !.calls = @ \o (IF strategy.preWarm
                                              THEN <<"queryPrediction", "GetDeployment">>
                                              ELSE <<"GetDeployment">>)],
                 strategy, history)

ForecastAndDecide(call, strategy, history) ==
    \E q1 \in PredictionAnswers :
    \E q2 \in AnswersIf(~q1.err, MemoryAnswers, Unasked) :
    \E calc \in {CalculateDesiredReplicasHTTP(hpa, status, q1, q2)} :
        IF calc.err # "nil"
        THEN Return(Failed([call EXCEPT !.calls = @ \o (IF q1.err THEN <<"queryPrediction">>
                                                       ELSE <<"queryPrediction",
                                                              "queryPrediction">>)],
                           calc.err),
                    history, predictor, status, replicas)
        ELSE PreWarmAndDecide(
                 [call EXCEPT !.calcDesired = calc.desired, !.loadRatio = calc.ratio,
                              !.calls = @ \o <<"queryPrediction", "queryPrediction">>],
                 strategy, history)

\* GetStrategy: AnalyzePattern records the sample, the pattern picks the strategy
ClassifyAndDecide(m, history, key) ==
    \E strategy \in {StrategyFor(determinePattern(history[key]))} :
        ForecastAndDecide([Started(m) EXCEPT !.pattern = strategy.pattern], strategy, history)

ScaleWorkloadHTTP ==
    /\ impl = "http"
    /\ Len(historyData[WorkloadKey(hpa.namespace, hpa.name)]) < MaxHistory
    /\ \E m \in PodMetricsAnswers :
       \E cm \in {CollectMetrics(m, hpa.name)} :
          IF cm.err # "nil"
          THEN Return(Failed(Started(m), cm.err), historyData, predictor, status, replicas)
          ELSE ClassifyAndDecide(m,
                   AppendHistory(historyData, WorkloadKey(hpa.namespace, hpa.name),
                                 cm.cpu, historyWindow, sampleInterval),
                   WorkloadKey(hpa.namespace, hpa.name))
    /\ UNCHANGED <<impl, hpa, now, historyWindow, sampleInterval>>

(***************************************************************************)
(* ScalingManager.ScaleWorkload of part_005.                               *)
(***************************************************************************)
\* the unchanged-count check and the update
CompareAndUpdate(call, a) ==
    IF call.desired = call.current
    THEN Return(call, historyData, a, status, replicas)
    ELSE \E u \in ScaleAnswers : UpdateReplicas(call, u, historyData, a)

ForecastAndUpdate(m, a) ==
    \E calc \in {CalculateDesiredReplicasARIMA(hpa, status, a)} :
        IF calc.err # "nil"
        THEN Return(Failed(Started(m), calc.err), historyData, a, status, replicas)
        ELSE CompareAndUpdate([Started(m) EXCEPT !.calcDesired = calc.desired,
                                                 !.desired = calc.desired,
                                                 !.loadRatio = calc.ratio,
                                                 !.current = status.currentReplicas], a)

ScaleWorkloadARIMA ==
    /\ impl = "arima"
    /\ Len(predictor.data) < MaxData
    /\ \E m \in PodMetricsAnswers :
       \E cm \in {CollectMetrics(m, hpa.name)} :
          IF cm.err # "nil"
          THEN Return(Failed(Started(m), cm.err), historyData, predictor, status, replicas)
          ELSE ForecastAndUpdate(m,
                   AddDataPoint(predictor, now, LoadSample(hpa, cm.cpu, cm.memory)))
    /\ UNCHANGED <<impl, hpa, now, historyWindow, sampleInterval>>

(***************************************************************************)
(* The clock, and the engine after construction.                           *)
(***************************************************************************)
TickSteps == {3, 7}

Tick ==
    /\ \E dt \in TickSteps : now + dt <= MaxTime /\ now' = now + dt
    /\ lastCall' = Idle
    /\ UNCHANGED <<impl, hpa, status, replicas, historyWindow, sampleInterval,
                   historyData, predictor>>

EngineHistoryWindow == 2880      \* 24 * time.Hour
EngineSampleInterval == 10       \* 5 * time.Minute

Init ==
    /\ impl \in {"http", "arima"}
    /\ hpa \in Targets
    /\ status = [currentReplicas |-> hpa.initStatus, predictedLoad |-> RZero,
                 lastScaledTime |-> NoTime]
    /\ replicas = hpa.initReplicas
    /\ now = 0
    /\ historyWindow = EngineHistoryWindow
    /\ sampleInterval = EngineSampleInterval
    /\ historyData = [k \in Keys |-> <<>>]
    /\ predictor = NewARIMAPredictor(2, 1, 1)
    /\ lastCall = Idle

Next == ScaleWorkloadHTTP \/ ScaleWorkloadARIMA \/ Tick

Spec == Init /\ [][Next]_vars

(***************************************************************************)
(* Cycles of part_004 for one target, run sequentially with the status     *)
(* kept between cycles, on an engine observed after six samples of a       *)
(* steady load (0.7 cores) were recorded, so that the Burst strategy is    *)
(* selected when the load doubles.                                         *)
(***************************************************************************)
SteadySeed == << <<7, 10>>, <<7, 10>>, <<7, 10>>, <<7, 10>>, <<7, 10>>, <<7, 10>> >>

InitSeeded ==
    /\ impl = "http"
    /\ hpa \in {h \in Targets : h.minReplicas = 1}
    /\ status = [currentReplicas |-> hpa.initStatus, predictedLoad |-> RZero,
                 lastScaledTime |-> NoTime]
    /\ replicas = hpa.initReplicas
    /\ now = 0
    /\ historyWindow = EngineHistoryWindow
    /\ sampleInterval = EngineSampleInterval
    /\ historyData = [k \in Keys |->
                         IF k = WorkloadKey(hpa.namespace, hpa.name)
                         THEN SteadySeed ELSE <<>>]
    /\ predictor = NewARIMAPredictor(2, 1, 1)
    /\ lastCall = Idle

ScaleWorkloadSeeded ==
    /\ impl = "http"
    /\ Len(historyData[WorkloadKey(hpa.namespace, hpa.name)]) < Len(SteadySeed) + MaxTail
    /\ \E m \in PodMetricsAnswers :
       \E cm \in {CollectMetrics(m, hpa.name)} :
          IF cm.err # "nil"
          THEN Return(Failed(Started(m), cm.err), historyData, predictor, status, replicas)
          ELSE ClassifyAndDecide(m,
                   AppendHistory(historyData, WorkloadKey(hpa.namespace, hpa.name),
                                 cm.cpu, historyWindow, sampleInterval),
                   WorkloadKey(hpa.namespace, hpa.name))
    /\ UNCHANGED <<impl, hpa, now, historyWindow, sampleInterval>>

NextSeeded == ScaleWorkloadSeeded \/ Tick

SpecSeeded == InitSeeded /\ [][NextSeeded]_vars

(***************************************************************************)
(* Cycles of part_005 on a new engine with the metrics provider answering  *)
(* with pods of the target in every cycle.                                 *)
(***************************************************************************)
InitWarmUp == Init /\ impl = "arima"

ScaleWorkloadCollected ==
    /\ ScaleWorkloadARIMA
    /\ lastCall'.err \notin {"metrics", "nopods"}

NextWarmUp == ScaleWorkloadCollected \/ Tick

SpecWarmUp == InitWarmUp /\ [][NextWarmUp]_vars

(***************************************************************************)
(* Cycles of both implementations for targets whose status was never       *)
(* written (status.currentReplicas = 0, the zero value of a new object):   *)
(* one that allows zero replicas, with its deployment at 0 or at 3, and    *)
(* one with minReplicas = 2.                                               *)
(***************************************************************************)
ZeroTargets ==
    { [namespace |-> "default", name |-> TargetName, minReplicas |-> 0, maxReplicas |-> 10,
       cpuThreshold |-> <<7, 10>>, memThreshold |-> <<4, 5>>, predictionWindow |-> 2,
       initStatus |-> 0, initReplicas |-> 0],
      [namespace |-> "default", name |-> TargetName, minReplicas |-> 0, maxReplicas |-> 10,
       cpuThreshold |-> <<7, 10>>, memThreshold |-> <<4, 5>>, predictionWindow |-> 2,
       initStatus |-> 0, initReplicas |-> 3] }

InitZero ==
    /\ impl \in {"http", "arima"}
    /\ hpa \in ZeroTargets \cup {h \in Targets : h.initStatus = 0}
    /\ status = [currentReplicas |-> hpa.initStatus, predictedLoad |-> RZero,
                 lastScaledTime |-> NoTime]
    /\ replicas = hpa.initReplicas
    /\ now = 0
    /\ historyWindow = EngineHistoryWindow
    /\ sampleInterval = EngineSampleInterval
    /\ historyData = [k \in Keys |-> <<>>]
    /\ predictor = NewARIMAPredictor(2, 1, 1)
    /\ lastCall = Idle

SpecZero == InitZero /\ [][Next]_vars

(***************************************************************************)
(* Cycles with the namespaces told apart: the HPAModifier object lives in  *)
(* hpa.namespace (hpa.Namespace) and names its target in                   *)
(* hpa.targetNamespace (hpa.Spec.TargetRef.Namespace).  A deployment of    *)
(* the target's name exists in each namespace; `replicas` maps a namespace *)
(* to the count of the deployment there, and the metrics provider is asked *)
(* for the pods of one namespace.  The record of a call notes the workload *)
(* each step addressed.                                                    *)
(***************************************************************************)
Namespaces == {"default", "prod"}
NamespacedKeys == {WorkloadKey(ns, TargetName) : ns \in Namespaces}
NoKey == <<>>

NamespacedTargets ==
    { [namespace |-> "default", targetNamespace |-> tns, name |-> TargetName,
       minReplicas |-> 1, maxReplicas |-> 10,
       cpuThreshold |-> <<7, 10>>, memThreshold |-> <<4, 5>>, predictionWindow |-> 2,
       initStatus |-> 1, initReplicas |-> 1] : tns \in Namespaces }

\* MetricsClient.GetPodMetrics(namespace): the pods of the target run at
\* 700m in "default" and at 2100m in "prod"
PodMetricsIn(ns) ==
    { [err |-> TRUE, items |-> <<>>],
      [err |-> FALSE,
       items |-> <<Pod(<<"nginx", "deployment", "9d9b", "64sbk">>, <<"nginx">>,
                       <<Container(IF ns = "default" THEN 700 ELSE 2100, 1)>>)>>] }

\* a call that asked for the pod metrics of namespace ns
StartedIn(ns, m) ==
    [op |-> "ScaleWorkload", err |-> "nil", podMetrics |-> m,
     metricsOf |-> WorkloadKey(ns, hpa.name), key |-> NoKey, deployment |-> NoKey,
     desired |-> NoValue, loadRatio |-> RZero, current |-> NoValue,
     gated |-> FALSE, sent |-> <<>>]

\* updateReplicas on the deployment of namespace ns
UpdateReplicasIn(call, u, history, pred, ns) ==
    IF u # "ok"
    THEN Return(Failed(call, u), history, pred, status, replicas)
    ELSE Return([call EXCEPT !.sent = <<call.desired>>], history, pred,
                StatusUpdate(status, call.desired, call.loadRatio, now),
                [replicas EXCEPT ![ns] = call.desired])

GateOrUpdateIn(call, strategy, history, ns) ==
    IF /\ call.current # call.desired
       /\ status.lastScaledTime # NoTime
       /\ DelayPending(status.lastScaledTime, now, strategy.delay)
    THEN Return([call EXCEPT !.gated = TRUE], history, predictor, status, replicas)
    ELSE \E u \in ScaleAnswers : UpdateReplicasIn(call, u, history, predictor, ns)

\* getCurrentReplicas reads Deployments(ns); updateReplicas follows in the same ns
ReadAndDecideIn(call, strategy, history, ns) ==
    \E g \in BOOLEAN :
        IF ~g
        THEN Return(Failed([call EXCEPT !.deployment = WorkloadKey(ns, hpa.name)],
                           "getreplicas"),
                    history, predictor, status, replicas)
        ELSE GateOrUpdateIn([call EXCEPT !.deployment = WorkloadKey(ns, hpa.name),
                                         !.current = replicas[ns]],
                            strategy, history, ns)

PreWarmAndDecideIn(call, strategy, history, ns) ==
    \E q3 \in AnswersIf(strategy.preWarm, PredictionAnswers, Unasked) :
        IF strategy.preWarm /\ q3.err
        THEN Return(Failed(call, "predict"), history, predictor, status, replicas)
        ELSE ReadAndDecideIn(
                 [call EXCEPT !.desired = PreWarmReplicas(strategy, hpa.minReplicas,
                                                          call.desired, q3.values)],
                 strategy, history, ns)

ForecastAndDecideIn(call, strategy, history, ns) ==
    \E q1 \in PredictionAnswers :
    \E q2 \in AnswersIf(~q1.err, MemoryAnswers, Unasked) :
    \E calc \in {CalculateDesiredReplicasHTTP(hpa, status, q1, q2)} :
        IF calc.err # "nil"
        THEN Return(Failed(call, calc.err), history, predictor, status, replicas)
        ELSE PreWarmAndDecideIn([call EXCEPT !.desired = calc.desired,
                                             !.loadRatio = calc.ratio],
                                strategy, history, ns)

\* part_004: the pods of hpa.Spec.TargetRef.Namespace, the key and the
\* deployment of hpa.Namespace
ScaleWorkloadNamespacedHTTP ==
    /\ impl = "http"
    /\ Len(historyData[WorkloadKey(hpa.namespace, hpa.name)]) < MaxHistory
    /\ \E m \in PodMetricsIn(hpa.targetNamespace) :
       \E cm \in {CollectMetrics(m, hpa.name)} :
          IF cm.err # "nil"
          THEN Return(Failed(StartedIn(hpa.targetNamespace, m), cm.err),
                      historyData, predictor, status, replicas)
          ELSE \E history \in {AppendHistory(historyData,
                                             WorkloadKey(hpa.namespace, hpa.name),
                                             cm.cpu, historyWindow, sampleInterval)} :
               \E strategy \in {StrategyFor(determinePattern(
                                    history[WorkloadKey(hpa.namespace, hpa.name)]))} :
                   ForecastAndDecideIn(
                       [StartedIn(hpa.targetNamespace, m)
                            EXCEPT !.key = WorkloadKey(hpa.namespace, hpa.name)],
                       strategy, history, hpa.namespace)
    /\ UNCHANGED <<impl, hpa, now, historyWindow, sampleInterval>>

CompareAndUpdateIn(call, a, ns) ==
    IF call.desired = call.current
    THEN Return(call, historyData, a, status, replicas)
    ELSE \E u \in ScaleAnswers :
             UpdateReplicasIn([call EXCEPT !.deployment = WorkloadKey(ns, hpa.name)],
                              u, historyData, a, ns)

\* part_005: the pods and the deployment of hpa.Spec.TargetRef.Namespace
ScaleWorkloadNamespacedARIMA ==
    /\ impl = "arima"
    /\ Len(predictor.data) < MaxData
    /\ \E m \in PodMetricsIn(hpa.targetNamespace) :
       \E cm \in {CollectMetrics(m, hpa.name)} :
          IF cm.err # "nil"
          THEN Return(Failed(StartedIn(hpa.targetNamespace, m), cm.err),
                      historyData, predictor, status, replicas)
          ELSE \E a \in {AddDataPoint(predictor, now,
                                      LoadSample(hpa, cm.cpu, cm.memory))} :
               \E calc \in {CalculateDesiredReplicasARIMA(hpa, status, a)} :
                   IF calc.err # "nil"
                   THEN Return(Failed(StartedIn(hpa.targetNamespace, m), calc.err),
                               historyData, a, status, replicas)
                   ELSE CompareAndUpdateIn(
                            [StartedIn(hpa.targetNamespace, m)
                                 EXCEPT !.desired = calc.desired,
                                        !.loadRatio = calc.ratio,
                                        !.current = status.currentReplicas],
                            a, hpa.targetNamespace)
    /\ UNCHANGED <<impl, hpa, now, historyWindow, sampleInterval>>

InitNamespaced ==
    /\ impl \in {"http", "arima"}
    /\ hpa \in NamespacedTargets
    /\ status = [currentReplicas |-> hpa.initStatus, predictedLoad |-> RZero,
                 lastScaledTime |-> NoTime]
    /\ replicas = [ns \in Namespaces |-> hpa.initReplicas]
    /\ now = 0
    /\ historyWindow = EngineHistoryWindow
    /\ sampleInterval = EngineSampleInterval
    /\ historyData = [k \in NamespacedKeys |-> <<>>]
    /\ predictor = NewARIMAPredictor(2, 1, 1)
    /\ lastCall = Idle

NextNamespaced == ScaleWorkloadNamespacedHTTP \/ ScaleWorkloadNamespacedARIMA \/ Tick

SpecNamespaced == InitNamespaced /\ [][NextNamespaced]_vars

(***************************************************************************)
(* HPAModifierReconciler.Reconcile driving part_004 with every external    *)
(* call succeeding: ScaleWorkload returns nil, the status is stored and    *)
(* the request is requeued after RequeueInterval (10 s; the clock's unit   *)
(* is 30 s, so the next cycle runs at a later clock value).  The workqueue *)
(* delivers a requeued request and the clock advances, which is what the   *)
(* fairness conditions say.                                                *)
(***************************************************************************)
RequeueSteps == {1, 3}

\* the metrics provider keeps reporting one pod of the target at 700m
SteadyMetrics ==
    { [err |-> FALSE,
       items |-> <<Pod(<<"nginx", "deployment", "9d9b", "64sbk">>, <<"nginx">>,
                       <<Container(700, 1)>>)>>] }

\* Reconcile with ScaleWorkload returning nil
ReconcileHTTP ==
    /\ impl = "http"
    /\ lastCall.op # "ScaleWorkload"
    /\ \E m \in SteadyMetrics :
       \E cm \in {CollectMetrics(m, hpa.name)} :
          /\ cm.err = "nil"
          /\ ClassifyAndDecide(m,
                 AppendHistory(historyData, WorkloadKey(hpa.namespace, hpa.name),
                               cm.cpu, historyWindow, sampleInterval),
                 WorkloadKey(hpa.namespace, hpa.name))
    /\ lastCall'.err = "nil"
    /\ UNCHANGED <<impl, hpa, now, historyWindow, sampleInterval>>

\* a due request is reconciled: the step leaves the record of a ScaleWorkload
\* call, of which the record of a call that has just started is one
ReconcileRuns ==
    /\ impl = "http"
    /\ lastCall.op # "ScaleWorkload"
    /\ \/ /\ lastCall' = Started(NoPodMetrics)
          /\ UNCHANGED <<impl, hpa, status, replicas, now, historyWindow,
                         sampleInterval, historyData, predictor>>
       \/ lastCall'.op = "ScaleWorkload"

RequeueAfter ==
    /\ lastCall.op = "ScaleWorkload"
    /\ \E dt \in RequeueSteps : now + dt <= MaxTime /\ now' = now + dt
    /\ lastCall' = Idle
    /\ UNCHANGED <<impl, hpa, status, replicas, historyWindow, sampleInterval,
                   historyData, predictor>>

InitRequeue == Init /\ impl = "http"

NextRequeue == ReconcileHTTP \/ RequeueAfter

\* among the steps of NextRequeue those of ReconcileRuns are the steps of
\* ReconcileHTTP, and both are possible exactly when a request is due
SpecRequeue ==
    InitRequeue /\ [][NextRequeue]_vars /\ WF_vars(ReconcileRuns) /\ WF_vars(RequeueAfter)

(***************************************************************************)
(* Direct use of a PatternAnalyzer built with a small window.              *)
(***************************************************************************)
SampleValues == {<<0, 1>>, <<1, 1>>, <<3, 1>>}
SampleIntervals == {1, 2}

InitAnalyzer ==
    /\ impl = "http"
    /\ hpa \in Targets
    /\ status = [currentReplicas |-> hpa.initStatus, predictedLoad |-> RZero,
                 lastScaledTime |-> NoTime]
    /\ replicas = hpa.initReplicas
    /\ now = 0
    /\ historyWindow \in 0..MaxWindowCfg
    /\ sampleInterval \in SampleIntervals
    /\ historyData = [k \in Keys |-> <<>>]
    /\ predictor = NewARIMAPredictor(2, 1, 1)
    /\ lastCall = Idle

AnalyzePattern(workloadKey, currentValue) ==
    /\ historyData' = AppendHistory(historyData, workloadKey, currentValue,
                                    historyWindow, sampleInterval)
    /\ lastCall' = [Idle EXCEPT !.op = "AnalyzePattern",
                                !.pattern = determinePattern(historyData'[workloadKey])]
    /\ UNCHANGED <<impl, hpa, status, replicas, now, historyWindow, sampleInterval,
                   predictor>>

NextAnalyzer == \E k \in Keys, v \in SampleValues : AnalyzePattern(k, v)

SpecAnalyzer == InitAnalyzer /\ [][NextAnalyzer]_vars

(***************************************************************************)
(* The same PatternAnalyzer with a log of its calls: lastCall carries the  *)
(* key of the last call and, per key, every value passed so far (the log   *)
(* is an observer, the analyzer never reads it).                           *)
(***************************************************************************)
InitWindow ==
    /\ impl = "http"
    /\ hpa \in Targets
    /\ status = [currentReplicas |-> hpa.initStatus, predictedLoad |-> RZero,
                 lastScaledTime |-> NoTime]
    /\ replicas = hpa.initReplicas
    /\ now = 0
    /\ historyWindow \in 0..MaxWindowCfg
    /\ sampleInterval \in SampleIntervals
    /\ historyData = [k \in Keys |-> <<>>]
    /\ predictor = NewARIMAPredictor(2, 1, 1)
    /\ lastCall = [op |-> "none", key |-> "none", pattern |-> NoValue, calls |-> 0,
                   appended |-> [k \in Keys |-> <<>>]]

AnalyzePatternLogged(workloadKey, currentValue) ==
    /\ lastCall.calls < MaxCalls
    /\ historyData' = AppendHistory(historyData, workloadKey, currentValue,
                                    historyWindow, sampleInterval)
    /\ lastCall' = [op |-> "AnalyzePattern",
                    key |-> workloadKey,
                    pattern |-> determinePattern(historyData'[workloadKey]),
                    calls |-> lastCall.calls + 1,
                    appended |-> [lastCall.appended EXCEPT
                                      ![workloadKey] = Append(@, currentValue)]]
    /\ UNCHANGED <<impl, hpa, status, replicas, now, historyWindow, sampleInterval,
                   predictor>>

NextWindow == \E k \in Keys, v \in SampleValues : AnalyzePatternLogged(k, v)

SpecWindow == InitWindow /\ [][NextWindow]_vars

(***************************************************************************)
(* Direct use of the StrategyFactory of the engine (window 24 h / 5 min):  *)
(* GetStrategy calls for one workload key.  The factory is observed either *)
(* from its construction or after eleven samples were recorded, so that    *)
(* histories long enough for the periodicity test are met.                 *)
(***************************************************************************)
StrategySamples == {RInt(0), RInt(1), RInt(10)}

\* eleven recorded samples of a workload idling at 0 / 1
SpikeSeed ==
    <<RInt(1), RInt(0), RInt(0), RInt(1), RInt(0), RInt(0), RInt(1), RInt(0), RInt(0),
      RInt(0), RInt(1)>>
\* eleven recorded samples of a workload that starts alternating 11 / 10
AlternatingSeed ==
    <<RInt(11), RInt(11), RInt(11), RInt(11), RInt(11), RInt(10), RInt(11), RInt(10),
      RInt(11), RInt(10), RInt(11)>>
HistorySeeds == {<<>>, SpikeSeed, AlternatingSeed}

NoStrategy == [pattern |-> NoValue, delay |-> 0, threshold |-> RZero,
               preWarm |-> FALSE, preWarmTime |-> 0]

InitStrategy ==
    /\ impl = "http"
    /\ hpa \in {h \in Targets : h.minReplicas = 1}
    /\ status = [currentReplicas |-> hpa.initStatus, predictedLoad |-> RZero,
                 lastScaledTime |-> NoTime]
    /\ replicas = hpa.initReplicas
    /\ now = 0
    /\ historyWindow = EngineHistoryWindow
    /\ sampleInterval = EngineSampleInterval
    /\ \E seed \in HistorySeeds :
          historyData = [k \in Keys |->
                            IF k = WorkloadKey(hpa.namespace, hpa.name) THEN seed ELSE <<>>]
    /\ predictor = NewARIMAPredictor(2, 1, 1)
    /\ lastCall = [op |-> "none", key |-> "none", pattern |-> NoValue,
                   strategy |-> NoStrategy]

GetStrategy(workloadKey, currentValue) ==
    /\ \/ Len(historyData[workloadKey]) < MaxSamples
       \/ /\ Len(historyData[workloadKey]) >= Len(SpikeSeed)
          /\ Len(historyData[workloadKey]) < Len(SpikeSeed) + MaxTail
    /\ historyData' = AppendHistory(historyData, workloadKey, currentValue,
                                    historyWindow, sampleInterval)
    /\ \E pattern \in {determinePattern(historyData'[workloadKey])} :
          lastCall' = [op |-> "GetStrategy", key |-> workloadKey, pattern |-> pattern,
                       strategy |-> StrategyFor(pattern)]
    /\ UNCHANGED <<impl, hpa, status, replicas, now, historyWindow, sampleInterval,
                   predictor>>

NextStrategy ==
    \E v \in StrategySamples : GetStrategy(WorkloadKey(hpa.namespace, hpa.name), v)

SpecStrategy == InitStrategy /\ [][NextStrategy]_vars

(***************************************************************************)
(* Cycles run with a context that is already cancelled when ScaleWorkload  *)
(* is entered.  The calls that are handed the context (Deployments.Get,    *)
(* GetScale, UpdateScale) fail with the context's error; GetPodMetrics     *)
(* (MetricsClient takes no context, K8sMetricsClient lists with            *)
(* context.Background()) and queryPrediction (http.Get) are not handed it  *)
(* and answer as they do otherwise.                                        *)
(***************************************************************************)
Made(call, name) == \E i \in 1..Len(call.calls) : call.calls[i] = name

\* every call of the cycle that was handed the context failed
ContextCallsFailed(call) ==
    /\ Made(call, "GetDeployment") => call.err = "getreplicas"
    /\ Made(call, "GetScale") => call.err = "getscale"

ScaleWorkloadCancelled ==
    /\ ScaleWorkloadHTTP \/ ScaleWorkloadARIMA
    /\ ContextCallsFailed(lastCall')

SpecCancelled == Init /\ [][ScaleWorkloadCancelled]_vars

(***************************************************************************)
(* Cycles run by several goroutines on one engine, for one workload key.   *)
(* Of a cycle the step that touches the engine's state is kept: the        *)
(* statement historyData[key] = append(historyData[key], value) of         *)
(* AnalyzePattern (part_004) or a.data = append(a.data, value) of          *)
(* AddDataPoint (part_005).  Neither is guarded by a lock, so the read of  *)
(* the old slice and the write of the new one are two steps that other     *)
(* callers can interleave with.  lastCall carries each caller's position,  *)
(* the slice it read, its value, and the number of calls that returned.    *)
(***************************************************************************)
Callers == 1..NumCallers

InitConcurrent ==
    /\ impl \in {"http", "arima"}
    /\ hpa \in {h \in Targets : h.minReplicas = 1}
    /\ status = [currentReplicas |-> hpa.initStatus, predictedLoad |-> RZero,
                 lastScaledTime |-> NoTime]
    /\ replicas = hpa.initReplicas
    /\ now = 0
    /\ historyWindow = EngineHistoryWindow
    /\ sampleInterval = EngineSampleInterval
    /\ historyData = [k \in Keys |-> <<>>]
    /\ predictor = NewARIMAPredictor(2, 1, 1)
    /\ lastCall = [op |-> "none",
                   pc |-> [c \in Callers |-> "idle"],
                   read |-> [c \in Callers |-> <<>>],
                   value |-> [c \in Callers |-> RZero],
                   returned |-> 0]

\* the number of callers inside the append
InFlight(call) == Cardinality({c \in Callers : call.pc[c] = "appending"})

\* caller c evaluates the right-hand side: it reads the slice stored now
ReadSlice(c, currentValue) ==
    /\ lastCall.pc[c] = "idle"
    /\ lastCall.returned + InFlight(lastCall) < MaxAppends
    /\ lastCall' = [lastCall EXCEPT
                       !.op = "read",
                       !.pc[c] = "appending",
                       !.read[c] = IF impl = "http"
                                   THEN historyData[WorkloadKey(hpa.namespace, hpa.name)]
                                   ELSE predictor,
                       !.value[c] = currentValue]
    /\ UNCHANGED <<impl, hpa, status, replicas, now, historyWindow, sampleInterval,
                   historyData, predictor>>

\* caller c stores the slice it read with its value appended (and trimmed)
WriteSlice(c) ==
    /\ lastCall.pc[c] = "appending"
    /\ IF impl = "http"
       THEN /\ historyData' =
                  [historyData EXCEPT ![WorkloadKey(hpa.namespace, hpa.name)] =
                      TrimHistory(Append(lastCall.read[c], lastCall.value[c]),
                                  windowSize(historyWindow, sampleInterval))]
            /\ UNCHANGED predictor
       ELSE /\ predictor' = AddDataPoint(lastCall.read[c], now, lastCall.value[c])
            /\ UNCHANGED historyData
    /\ lastCall' = [lastCall EXCEPT !.op = "write",
                                    !.pc[c] = "idle",
                                    !.read[c] = <<>>,
                                    !.returned = @ + 1]
    /\ UNCHANGED <<impl, hpa, status, replicas, now, historyWindow, sampleInterval>>

NextConcurrent ==
    \/ \E c \in Callers, v \in SampleValues : ReadSlice(c, v)
    \/ \E c \in Callers : WriteSlice(c)

SpecConcurrent == InitConcurrent /\ [][NextConcurrent]_vars

(***************************************************************************)
(* Direct use of CollectMetrics: the metrics provider answers with an      *)
(* error or with a list of pods of the namespace drawn from a pool.        *)
(***************************************************************************)
PodPool ==
    { Pod(<<"web", "1">>, TargetName, <<Container(700, 1), Container(2100, 1)>>),
      Pod(<<"nginx", "deployment", "9d9b">>, <<"nginx">>, <<Container(700, 1)>>),
      Pod(<<"nginx", "deployment", "x">>, <<"nginx">>, <<>>),
      Pod(<<"idle">>, TargetName, <<Container(0, 0)>>),
      Pod(<<"redis", "0">>, <<"redis">>, <<Container(900, 2)>>),
      Pod(<<"nginx", "deployment">>, <<"nginx">>, <<Container(500, 1)>>),
      Pod(<<"nginx", "deploymentx", "1">>, <<"other">>, <<Container(300, 1)>>) }

PoolAnswers ==
    {[err |-> TRUE, items |-> <<>>]}
        \cup {[err |-> FALSE, items |-> items] :
                  items \in UNION {[1..n -> PodPool] : n \in 0..MaxPods}}

NoUsage == [err |-> "none", cpu |-> RZero, memory |-> RZero]

InitMetrics ==
    /\ impl \in {"http", "arima"}
    /\ hpa \in Targets
    /\ status = [currentReplicas |-> hpa.initStatus, predictedLoad |-> RZero,
                 lastScaledTime |-> NoTime]
    /\ replicas = hpa.initReplicas
    /\ now = 0
    /\ historyWindow = EngineHistoryWindow
    /\ sampleInterval = EngineSampleInterval
    /\ historyData = [k \in Keys |-> <<>>]
    /\ predictor = NewARIMAPredictor(2, 1, 1)
    /\ lastCall = [op |-> "none", answer |-> NoPodMetrics, result |-> NoUsage]

CollectMetricsCall(answer) ==
    /\ lastCall' = [op |-> "CollectMetrics", answer |-> answer,
                    result |-> CollectMetrics(answer, hpa.name)]
    /\ UNCHANGED <<impl, hpa, status, replicas, now, historyWindow, sampleInterval,
                   historyData, predictor>>

NextMetrics == \E answer \in PoolAnswers : CollectMetricsCall(answer)

SpecMetrics == InitMetrics /\ [][NextMetrics]_vars

(***************************************************************************)
(* The pre-warm step of ScaleWorkload (part_004) on its own: the strategy  *)
(* GetStrategy returned, the target's minReplicas, the count               *)
(* CalculateDesiredReplicas returned and the answer of the step's          *)
(* queryPrediction("cpu").                                                  *)
(***************************************************************************)
MaxMinReplicas == 3
MaxDesired == 5

PreWarmAnswers ==
    PredictionAnswers \cup {[err |-> FALSE, values |-> << <<1, 2>>, <<3, 4>> >>]}

NoPreWarm ==
    [op |-> "none", pattern |-> NoValue, minReplicas |-> 0, calcDesired |-> NoValue,
     asked |-> FALSE, answer |-> Unasked, err |-> "nil", desired |-> NoValue]

InitPreWarm ==
    /\ impl = "http"
    /\ hpa \in Targets
    /\ status = [currentReplicas |-> hpa.initStatus, predictedLoad |-> RZero,
                 lastScaledTime |-> NoTime]
    /\ replicas = hpa.initReplicas
    /\ now = 0
    /\ historyWindow = EngineHistoryWindow
    /\ sampleInterval = EngineSampleInterval
    /\ historyData = [k \in Keys |-> <<>>]
    /\ predictor = NewARIMAPredictor(2, 1, 1)
    /\ lastCall = NoPreWarm

PreWarmStep(pattern, minReplicas, desiredReplicas) ==
    /\ \E strategy \in {StrategyFor(pattern)} :
       \E q3 \in AnswersIf(strategy.preWarm, PreWarmAnswers, Unasked) :
           lastCall' =
               [op |-> "PreWarm", pattern |-> pattern, minReplicas |-> minReplicas,
                calcDesired |-> desiredReplicas, asked |-> strategy.preWarm,
                answer |-> q3,
                err |-> IF strategy.preWarm /\ q3.err THEN "predict" ELSE "nil",
                desired |-> IF strategy.preWarm /\ q3.err THEN NoValue
                            ELSE PreWarmReplicas(strategy, minReplicas,
                                                 desiredReplicas, q3.values)]
    /\ UNCHANGED <<impl, hpa, status, replicas, now, historyWindow, sampleInterval,
                   historyData, predictor>>

NextPreWarm ==
    \E pattern \in {PatternStable, PatternPeriodic, PatternBurst},
       minReplicas \in 1..MaxMinReplicas, desiredReplicas \in 1..MaxDesired :
        PreWarmStep(pattern, minReplicas, desiredReplicas)

SpecPreWarm == InitPreWarm /\ [][NextPreWarm]_vars

(***************************************************************************)
(* Direct use of ARIMAPredictor.CalculateError.  A float64 quotient is a   *)
(* number, or +Inf / -Inf / NaN when the divisor is zero.                  *)
(***************************************************************************)
MaxHalves == 6

ErrorValues == {Rat(n, 2) : n \in (0 - MaxHalves)..MaxHalves}

Float(kind, value) == [kind |-> kind, value |-> value]

FloatDiv(x, y) ==
    IF y # RZero THEN Float("num", RDiv(x, y))
    ELSE IF x = RZero THEN Float("nan", RZero)
    ELSE IF RLess(x, RZero) THEN Float("-inf", RZero)
    ELSE Float("+inf", RZero)

\* Faulty variant: the error is taken relative to the prediction.
CalculateErrorByPredicted(actual, predicted) ==
    FloatDiv(RAbs(RSub(actual, predicted)), predicted)

CalculateError(actual, predicted) ==
    FloatDiv(RAbs(RSub(actual, predicted)), actual)

InitError ==
    /\ impl = "arima"
    /\ hpa \in Targets
    /\ status = [currentReplicas |-> hpa.initStatus, predictedLoad |-> RZero,
                 lastScaledTime |-> NoTime]
    /\ replicas = hpa.initReplicas
    /\ now = 0
    /\ historyWindow = EngineHistoryWindow
    /\ sampleInterval = EngineSampleInterval
    /\ historyData = [k \in Keys |-> <<>>]
    /\ predictor = NewARIMAPredictor(2, 1, 1)
    /\ lastCall = [op |-> "none", actual |-> RZero, predicted |-> RZero,
                   result |-> Float("none", RZero)]

CalculateErrorCall(actual, predicted) ==
    /\ lastCall' = [op |-> "CalculateError", actual |-> actual,
                    predicted |-> predicted,
                    result |-> CalculateError(actual, predicted)]
    /\ UNCHANGED <<impl, hpa, status, replicas, now, historyWindow, sampleInterval,
                   historyData, predictor>>

NextError == \E actual \in ErrorValues, predicted \in ErrorValues :
                 CalculateErrorCall(actual, predicted)

SpecError == InitError /\ [][NextError]_vars

(***************************************************************************)
(* Direct use of an ARIMAPredictor: NewARIMAPredictor(p, d, q), then       *)
(* AddDataPoint and Predict in any order.  lastCall carries the steps and  *)
(* the result of the last Predict.  The clock may or may not have advanced *)
(* between two AddDataPoint calls.                                         *)
(***************************************************************************)
NoResult == [err |-> "none", points |-> <<>>]

InitPredict ==
    /\ impl = "arima"
    /\ hpa \in {h \in Targets : h.minReplicas = 1}
    /\ status = [currentReplicas |-> hpa.initStatus, predictedLoad |-> RZero,
                 lastScaledTime |-> NoTime]
    /\ replicas = hpa.initReplicas
    /\ now = 0
    /\ historyWindow = EngineHistoryWindow
    /\ sampleInterval = EngineSampleInterval
    /\ historyData = [k \in Keys |-> <<>>]
    /\ \E p \in 0..MaxOrder, d \in 0..MaxOrder, q \in 0..MaxOrder :
          predictor = NewARIMAPredictor(p, d, q)
    /\ lastCall = [op |-> "none", steps |-> 0, result |-> NoResult]

AddDataPointAt(elapsed, value) ==
    /\ Len(predictor.data) < MaxBuffer
    /\ now' = now + elapsed
    /\ predictor' = AddDataPoint(predictor, now', value)
    /\ lastCall' = [op |-> "AddDataPoint", steps |-> 0, result |-> NoResult]
    /\ UNCHANGED <<impl, hpa, status, replicas, historyWindow, sampleInterval, historyData>>

PredictSteps(steps) ==
    /\ lastCall' = [op |-> "Predict", steps |-> steps, result |-> Predict(predictor, steps)]
    /\ UNCHANGED <<impl, hpa, status, replicas, now, historyWindow, sampleInterval,
                   historyData, predictor>>

NextPredict ==
    \/ \E elapsed \in {0, 1}, v \in {RInt(1), RInt(2)} : AddDataPointAt(elapsed, v)
    \/ \E steps \in (-1)..MaxSteps : PredictSteps(steps)

SpecPredict == InitPredict /\ [][NextPredict]_vars

(***************************************************************************)
(* One engine instance reconciling two HPAModifier objects: the cycles of  *)
(* the second object (another workload of the same namespace) run on the   *)
(* same ScalingManager.  Of such a cycle only what it leaves in the        *)
(* manager is kept: the sample it hands to the shared ARIMAPredictor       *)
(* (part_005) or the entry it appends under its own key (part_004).  The   *)
(* window historyWindow / sampleInterval is drawn small; part_005 has no   *)
(* PatternAnalyzer and reads neither of the two.                           *)
(***************************************************************************)
OtherTarget ==
    [namespace |-> "default", name |-> <<"api">>, minReplicas |-> 1, maxReplicas |-> 5,
     cpuThreshold |-> <<1, 2>>, memThreshold |-> <<1, 2>>, predictionWindow |-> 1,
     initStatus |-> 1, initReplicas |-> 1]

OtherPodMetricsAnswers ==
    { [err |-> TRUE, items |-> <<>>],
      [err |-> FALSE,
       items |-> <<Pod(<<"api", "7c5d">>, <<"api">>, <<Container(300, 1)>>)>>] }

InitShared ==
    /\ impl \in {"http", "arima"}
    /\ hpa \in Targets
    /\ status = [currentReplicas |-> hpa.initStatus, predictedLoad |-> RZero,
                 lastScaledTime |-> NoTime]
    /\ replicas = hpa.initReplicas
    /\ now = 0
    /\ historyWindow \in 1..MaxWindowCfg
    /\ sampleInterval = 1
    /\ historyData = [k \in Keys |-> <<>>]
    /\ predictor = NewARIMAPredictor(2, 1, 1)
    /\ lastCall = Idle

\* what a collected sample of the other workload leaves in the manager
RecordOther(cm) ==
    IF impl = "arima"
    THEN /\ predictor' = AddDataPoint(predictor, now,
                                      LoadSample(OtherTarget, cm.cpu, cm.memory))
         /\ UNCHANGED historyData
    ELSE /\ historyData' = AppendHistory(historyData,
                                WorkloadKey(OtherTarget.namespace, OtherTarget.name),
                                cm.cpu, historyWindow, sampleInterval)
         /\ UNCHANGED predictor

ScaleWorkloadOther ==
    /\ Len(predictor.data) < MaxData
    /\ Len(historyData[WorkloadKey(OtherTarget.namespace, OtherTarget.name)]) < MaxHistory
    /\ \E m \in OtherPodMetricsAnswers :
       \E cm \in {CollectMetrics(m, OtherTarget.name)} :
          IF cm.err # "nil"
          THEN UNCHANGED <<historyData, predictor>>
          ELSE RecordOther(cm)
    /\ lastCall' = [Idle EXCEPT !.op = "ScaleWorkloadOther"]
    /\ UNCHANGED <<impl, hpa, status, replicas, now, historyWindow, sampleInterval>>

NextShared == ScaleWorkloadHTTP \/ ScaleWorkloadARIMA \/ ScaleWorkloadOther

SpecShared == InitShared /\ [][NextShared]_vars

(***************************************************************************)
(* Properties of ScaleWorkload and CalculateDesiredReplicas.                *)
(***************************************************************************)
InRange(n, h) == h.minReplicas <= n /\ n <= h.maxReplicas
Returned(call) == call.op = "ScaleWorkload"
ReturnedNil(call) == Returned(call) /\ call.err = "nil"
ContactedScale(call) == \E i \in 1..Len(call.calls) : call.calls[i] \in {"GetScale", "UpdateScale"}

\* C1: after a ScaleWorkload call that returned nil and applied a count, the
\* count handed to the orchestrator and status.currentReplicas are both in
\* [minReplicas, maxReplicas], whichever strategy was selected.
C1_AppliedCountInRange ==
    (ReturnedNil(lastCall) /\ lastCall.sent # <<>>)
        => /\ \A i \in 1..Len(lastCall.sent) : InRange(lastCall.sent[i], hpa)
           /\ InRange(status.currentReplicas, hpa)

\* C2: whenever CalculateDesiredReplicas produced a count (a forecast was
\* obtained), that count is in [minReplicas, maxReplicas].
C2_CalculatedInRange ==
    (Returned(lastCall) /\ lastCall.calcDesired # NoValue) => InRange(lastCall.calcDesired, hpa)

\* a cycle whose forecast peak, scaled by the current replicas, lies above
\* maxReplicas and whose result is maxReplicas
C2_Witness ==
    /\ Returned(lastCall)
    /\ lastCall.calcDesired = hpa.maxReplicas
    /\ RLess(RInt(hpa.maxReplicas), lastCall.loadRatio)

\* C3: a part_004 cycle that read the orchestrator's count while
\* status.lastScaledTime was set, less than the selected strategy's delay had
\* elapsed and desired differed from the orchestrator's count returns nil,
\* hands nothing to the scale subresource and leaves status as it was.
C3_Hysteresis ==
    [][(/\ Returned(lastCall')
        /\ lastCall'.pattern # NoValue
        /\ lastCall'.current # NoValue
        /\ status.lastScaledTime # NoTime
        /\ now - status.lastScaledTime < StrategyFor(lastCall'.pattern).delay
        /\ lastCall'.desired # lastCall'.current)
       => /\ lastCall'.err = "nil"
          /\ lastCall'.sent = <<>>
          /\ ~ContactedScale(lastCall')
          /\ status' = status
          /\ replicas' = replicas]_vars

\* a cycle ended by the delay check of the Periodic strategy
C3_Witness ==
    /\ lastCall.gated
    /\ lastCall.pattern = PatternPeriodic
    /\ lastCall.desired # replicas
    /\ now > status.lastScaledTime

\* C4: a cycle whose desired count equals the count it is compared with hands
\* nothing to the orchestrator and leaves status, lastScaledTime included, as
\* it was.
C4_UnchangedCountNoUpdate ==
    [][(/\ Returned(lastCall')
        /\ lastCall'.current # NoValue
        /\ lastCall'.desired = lastCall'.current)
       => /\ lastCall'.sent = <<>>
          /\ ~ContactedScale(lastCall')
          /\ status' = status]_vars

\* C5: a ScaleWorkload call that returns an error leaves the three status
\* fields as they were before the call.
C5_ErrorLeavesStatus ==
    [][(Returned(lastCall') /\ lastCall'.err # "nil") => status' = status]_vars

\* UpdateScale failed for a count that differs from the stored one
C5_Witness ==
    /\ Returned(lastCall)
    /\ lastCall.err = "updatescale"
    /\ lastCall.sent = <<lastCall.desired>>
    /\ status.currentReplicas # lastCall.desired
    /\ status.lastScaledTime # NoTime

\* no pod of the answer carries the label app = name or a name "<name>-..."
NoPodOfTarget(items, name) ==
    \A i \in 1..Len(items) :
        /\ items[i].app # name
        /\ ~(/\ Len(items[i].name) > Len(name)
             /\ SubSeq(items[i].name, 1, Len(name)) = name)

\* C6: when the metrics provider answers with pods none of which matches the
\* target, the cycle returns the no-matching-pods error after the metrics
\* call alone, and status and the deployment's replicas stay as they were.
C6_NoMatchingPods ==
    [][(/\ Returned(lastCall')
        /\ ~lastCall'.podMetrics.err
        /\ NoPodOfTarget(lastCall'.podMetrics.items, hpa.name))
       => /\ lastCall'.err = "nopods"
          /\ lastCall'.calls = <<"GetPodMetrics">>
          /\ lastCall'.sent = <<>>
          /\ status' = status
          /\ replicas' = replicas]_vars

\* the cycle met pods of another workload only, after a count had been stored
C6_Witness ==
    /\ Returned(lastCall)
    /\ lastCall.err = "nopods"
    /\ Len(lastCall.podMetrics.items) > 0
    /\ status.lastScaledTime # NoTime

\* the target of the scenario: {min 1, max 10, cpuThreshold 0.7, memThreshold 0.8}
ScenarioTarget(h) ==
    /\ h.minReplicas = 1
    /\ h.maxReplicas = 10
    /\ h.cpuThreshold = <<7, 10>>
    /\ h.memThreshold = <<4, 5>>

\* the call collected cpuUsage = 0.7 cores
CollectedScenarioUsage(call, h) ==
    /\ Returned(call)
    /\ ~call.podMetrics.err
    /\ CollectMetrics(call.podMetrics, h.name) =
           [err |-> "nil", cpu |-> <<7, 10>>, memory |-> <<1, 4>>]

C8_NilLeavesTimeAndRange ==
    ReturnedNil(lastCall)
        => /\ status.lastScaledTime # NoTime
           /\ InRange(status.currentReplicas, hpa)

\* C9: status.lastScaledTime, once set, is never cleared and never decreases.
C9_LastScaledTimeMonotone ==
    [][status.lastScaledTime # NoTime
       => /\ status'.lastScaledTime # NoTime
          /\ status'.lastScaledTime >= status.lastScaledTime]_vars

\* a count that takes two updates to reach from the initial one, applied at
\* a later time than the engine's start
C9_Witness ==
    /\ ReturnedNil(lastCall)
    /\ lastCall.sent # <<>>
    /\ ScenarioTarget(hpa)
    /\ status.currentReplicas = 10
    /\ status.lastScaledTime = now
    /\ now > 0

(***************************************************************************)
(* Properties of the PatternAnalyzer.                                      *)
(***************************************************************************)
\* C10: every key's history holds at most historyWindow / sampleInterval
\* entries (integer division).
C10_HistoryBounded ==
    \A k \in Keys : Len(historyData[k]) <= historyWindow \div sampleInterval

\* a window of size 0: the sample just recorded is dropped again
C10_Witness ==
    /\ lastCall.op = "AnalyzePattern"
    /\ historyWindow \div sampleInterval = 0
    /\ \A k \in Keys : historyData[k] = <<>>

\* the last min(Len(s), w) entries of s, in the order of s
LastSamples(s, w) ==
    [i \in 1..(IF Len(s) < w THEN Len(s) ELSE w) |->
        s[Len(s) - (IF Len(s) < w THEN Len(s) ELSE w) + i]]

\* C11: after any sequence of AnalyzePattern calls, every key's history is
\* the last min(n, W) values passed for that key, in the order they were
\* passed (n the number of calls for the key, W = historyWindow /
\* sampleInterval), and the classification returned by the last call is the
\* one of exactly that window of its key.
C11_SlidingWindow ==
    /\ \A k \in Keys :
          historyData[k] = LastSamples(lastCall.appended[k], historyWindow \div sampleInterval)
    /\ lastCall.op = "AnalyzePattern"
          => lastCall.pattern =
                 determinePattern(LastSamples(lastCall.appended[lastCall.key],
                                              historyWindow \div sampleInterval))

\* four values passed for one key with a window of two: the two oldest are
\* gone, the two newest are kept in their order
C11_Witness ==
    /\ lastCall.op = "AnalyzePattern"
    /\ historyWindow \div sampleInterval = 2
    /\ \E k \in Keys :
          /\ lastCall.key = k
          /\ Len(lastCall.appended[k]) = 4
          /\ lastCall.appended[k][1] # lastCall.appended[k][3]
          /\ lastCall.appended[k][3] # lastCall.appended[k][4]
          /\ historyData[k] = <<lastCall.appended[k][3], lastCall.appended[k][4]>>

(***************************************************************************)
(* Properties of the forecaster's buffer.                                  *)
(***************************************************************************)
\* C12: the forecaster never holds more samples than the configured window
\* size historyWindow / sampleInterval, however many cycles have run.
C12_ForecasterBounded ==
    Len(predictor.data) <= windowSize(historyWindow, sampleInterval)

\* the load samples and the cpu samples the cycles of target h can record
OwnLoadSamples(h) ==
    { LoadSample(h, CollectMetrics(m, h.name).cpu, CollectMetrics(m, h.name).memory) :
         m \in {x \in PodMetricsAnswers : CollectMetrics(x, h.name).err = "nil"} }
OwnCpuSamples(h) ==
    { CollectMetrics(m, h.name).cpu :
         m \in {x \in PodMetricsAnswers : CollectMetrics(x, h.name).err = "nil"} }

\* the forecaster restricted to its first n samples that are in own
RECURSIVE OwnOnlyUpTo(_, _, _)
OwnOnlyUpTo(a, own, n) ==
    IF n = 0 THEN [a EXCEPT !.data = <<>>, !.timestamps = <<>>]
    ELSE IF a.data[n] \in own
         THEN AddDataPoint(OwnOnlyUpTo(a, own, n - 1), a.timestamps[n], a.data[n])
         ELSE OwnOnlyUpTo(a, own, n - 1)

\* the outcome of CalculateDesiredReplicas in call agrees with calc
SameCalculation(call, calc) ==
    IF calc.err # "nil"
    THEN call.err = calc.err
    ELSE call.calcDesired = calc.desired /\ call.loadRatio = calc.ratio

\* C13: a cycle for the target computes what it would compute had no cycle
\* of the other workload run on the instance: the forecaster and the target's
\* history hold samples of the target only, and the desired count and
\* loadRatio are those obtained from the target's own samples.
C13_NoSharedState ==
    [][(Returned(lastCall') /\ lastCall'.err \notin {"metrics", "nopods"})
       => /\ \A i \in 1..Len(predictor'.data) : predictor'.data[i] \in OwnLoadSamples(hpa)
          /\ \A i \in 1..Len(historyData'[WorkloadKey(hpa.namespace, hpa.name)]) :
                historyData'[WorkloadKey(hpa.namespace, hpa.name)][i] \in OwnCpuSamples(hpa)
          /\ impl = "arima"
                => SameCalculation(lastCall',
                       CalculateDesiredReplicasARIMA(hpa, status,
                           OwnOnlyUpTo(predictor', OwnLoadSamples(hpa), Len(predictor'.data))))]_vars

(***************************************************************************)
(* Properties of ARIMAPredictor.Predict.                                   *)
(***************************************************************************)
\* C14: Predict returns the insufficient-data error and no forecast whenever
\* the buffer holds fewer than p+d+q samples, for every p, d, q and steps.
C14_InsufficientData ==
    (lastCall.op = "Predict" /\ Len(predictor.data) < predictor.p + predictor.d + predictor.q)
        => lastCall.result = [err |-> "insufficient", points |-> <<>>]

\* Predict(2) on two samples taken at different times, one short of p+d+q = 3
C14_Witness ==
    /\ lastCall.op = "Predict"
    /\ lastCall.steps = 2
    /\ predictor.p + predictor.d + predictor.q = 3
    /\ Len(predictor.data) = 2
    /\ predictor.timestamps[1] < predictor.timestamps[2]
    /\ lastCall.result.err = "insufficient"

\* the i-th point is stamped last + i * (last - previous)
StampedByInterval(points, timestamps) ==
    \A i \in 1..Len(points) :
        points[i].Timestamp = timestamps[Len(timestamps)]
            + i * (timestamps[Len(timestamps)] - timestamps[Len(timestamps) - 1])

StrictlyIncreasing(timestamps) ==
    \A i \in 1..(Len(timestamps) - 1) : timestamps[i] < timestamps[i + 1]

\* C15: with a buffer of at least p+d+q samples (sizes 0 and 1 included) and
\* steps >= 0, Predict returns normally exactly steps points, the i-th
\* stamped lastTimestamp + i * (lastTimestamp - previousTimestamp); with
\* strictly increasing sample times every forecast timestamp is after the
\* last sample.
C15_PredictReturnsSteps ==
    (/\ lastCall.op = "Predict"
     /\ lastCall.steps >= 0
     /\ Len(predictor.data) >= predictor.p + predictor.d + predictor.q)
        => /\ lastCall.result.err = "nil"
           /\ Len(lastCall.result.points) = lastCall.steps
           /\ Len(predictor.timestamps) >= 2
                 => /\ StampedByInterval(lastCall.result.points, predictor.timestamps)
                    /\ StrictlyIncreasing(predictor.timestamps)
                          => \A i \in 1..Len(lastCall.result.points) :
                                lastCall.result.points[i].Timestamp
                                    > predictor.timestamps[Len(predictor.timestamps)]

\* C16: a part_005 cycle whose forecaster holds fewer than p+d+q samples
\* (the one just collected included) returns the forecast error: no replica
\* count is computed, the orchestrator is not contacted, and status and the
\* deployment stay as they were.
C16_InsufficientAborts ==
    [][(/\ impl = "arima"
        /\ Returned(lastCall')
        /\ lastCall'.err \notin {"metrics", "nopods"}
        /\ Len(predictor'.data) < predictor.p + predictor.d + predictor.q)
       => /\ lastCall'.err = "predict"
          /\ lastCall'.calls = <<"GetPodMetrics">>
          /\ lastCall'.calcDesired = NoValue
          /\ lastCall'.desired = NoValue
          /\ lastCall'.sent = <<>>
          /\ status' = status
          /\ replicas' = replicas]_vars

\* the third cycle of a part_005 engine: usage twice the threshold was
\* collected, the forecaster holds three samples, the cycle failed
C16_Witness ==
    /\ impl = "arima"
    /\ Returned(lastCall)
    /\ lastCall.err = "predict"
    /\ Len(predictor.data) = 3
    /\ predictor.data[3] = RInt(2)
    /\ status.currentReplicas = hpa.initStatus
    /\ status.lastScaledTime = NoTime
    /\ replicas = hpa.initReplicas

(***************************************************************************)
(* Properties of the classification and of GetStrategy.                    *)
(***************************************************************************)
\* the history the last GetStrategy call classified
Classified == historyData[lastCall.key]

Constant(h) == \A i \in 1..Len(h) : h[i] = h[1]

\* C17: a history of n >= 2 copies of one value c, c = 0 included, is
\* classified Stable.
C17_ConstantIsStable ==
    (lastCall.op = "GetStrategy" /\ Len(Classified) >= 2 /\ Constant(Classified))
        => lastCall.pattern = PatternStable

\* C18 as stated: the history [1,1,1,1,10] is classified Burst.
C18_TrailingSpikeIsBurst ==
    (lastCall.op = "GetStrategy"
     /\ Classified = <<RInt(1), RInt(1), RInt(1), RInt(1), RInt(10)>>)
        => lastCall.pattern = PatternBurst

\* C18 amended: the history [1,1,1,1,10] is classified Periodic (the standard
\* deviation of its absolute first differences does not exceed twice their
\* mean, and cv >= 0.2); the same spike after six samples of 1 is
\* classified Burst.
C18_SpikeAfterSixIsBurst ==
    lastCall.op = "GetStrategy"
        => /\ Classified = <<RInt(1), RInt(1), RInt(1), RInt(1), RInt(10)>>
                => lastCall.pattern = PatternPeriodic
           /\ Classified = <<RInt(1), RInt(1), RInt(1), RInt(1), RInt(1), RInt(1), RInt(10)>>
                => lastCall.pattern = PatternBurst

\* the call that recorded the spike 10 after four samples of 1
C18_Witness ==
    /\ lastCall.op = "GetStrategy"
    /\ Classified = <<RInt(1), RInt(1), RInt(1), RInt(1), RInt(10)>>
    /\ lastCall.pattern = PatternPeriodic

\* cv >= 0.2 for cv = stdDev / mean in float64: +Inf for a zero mean and a
\* non-zero deviation, NaN (no comparison holds) for 0/0
CvAtLeastThreshold(data, mean, variance) ==
    IF mean = RZero THEN variance # RZero
    ELSE IF RLess(mean, RZero) THEN FALSE
    ELSE ~RLess(RMul(RInt(25), variance), RSquare(mean))

HighVariation(data) ==
    CvAtLeastThreshold(data, calculateMean(data),
                       calculateVariance(data, calculateMean(data)))

\* C19: for a history of length >= 2 the result is Burst whenever the burst
\* test holds; otherwise Periodic when two autocorrelation peaks are found
\* or cv >= 0.2; and Stable only when neither test holds and cv < 0.2.
C19_Priority ==
    (lastCall.op = "GetStrategy" /\ Len(Classified) >= 2)
        => /\ detectBurst(Classified) => lastCall.pattern = PatternBurst
           /\ (~detectBurst(Classified)
                /\ (detectPeriodicity(Classified) \/ HighVariation(Classified)))
                 => lastCall.pattern = PatternPeriodic
           /\ lastCall.pattern = PatternStable
                 => /\ ~detectBurst(Classified)
                    /\ ~detectPeriodicity(Classified)
                    /\ cvBelowThreshold(Classified)

\* a history for which the burst test and the periodicity test both hold
C19_Witness ==
    /\ lastCall.op = "GetStrategy"
    /\ Classified = SpikeSeed \o <<RInt(1), RInt(1), RInt(10)>>
    /\ detectBurst(Classified)
    /\ detectPeriodicity(Classified)
    /\ lastCall.pattern = PatternBurst

\* the policy table: delay and lead in units of 30 s
PolicyTable(pattern) ==
    CASE pattern = PatternPeriodic ->
            [delay |-> 4, threshold |-> <<7, 10>>, preWarm |-> TRUE, preWarmTime |-> 30]
      [] pattern = PatternBurst ->
            [delay |-> 1, threshold |-> <<3, 5>>, preWarm |-> FALSE, preWarmTime |-> 0]
      [] OTHER ->
            [delay |-> 10, threshold |-> <<4, 5>>, preWarm |-> FALSE, preWarmTime |-> 0]

HasPolicy(strategy, policy) ==
    /\ strategy.delay = policy.delay
    /\ strategy.threshold = policy.threshold
    /\ strategy.preWarm = policy.preWarm
    /\ strategy.preWarmTime = policy.preWarmTime

\* C20: GetStrategy returns the policy of the pattern its AnalyzePattern call
\* yields, with the values of the table, in every call of the engine's
\* lifetime; a pattern value other than the three yields Stable's policy.
C20_StrategyTable ==
    /\ lastCall.op = "GetStrategy"
          => /\ lastCall.pattern = determinePattern(Classified)
             /\ HasPolicy(lastCall.strategy, PolicyTable(lastCall.pattern))
    /\ \A other \in {NoValue, 3, 4} : HasPolicy(StrategyFor(other), PolicyTable(PatternStable))

\* a call that classified Burst and returned the 30 s policy, after an
\* earlier call of the same run had returned another one
C20_Witness ==
    /\ lastCall.op = "GetStrategy"
    /\ lastCall.pattern = PatternBurst
    /\ Len(Classified) = MaxSamples
    /\ lastCall.strategy.delay = BurstDelay
    /\ ~lastCall.strategy.preWarm

(***************************************************************************)
(* Properties of CollectMetrics.                                           *)
(***************************************************************************)
\* the pods of the list with label app = name or a name "<name>-..."
PodsOfTarget(items, name) ==
    {i \in 1..Len(items) :
        \/ items[i].app = name
        \/ /\ Len(items[i].name) > Len(name)
           /\ SubSeq(items[i].name, 1, Len(name)) = name}

RECURSIVE ContainerUsage(_, _, _)
ContainerUsage(containers, field, n) ==
    IF n = 0 THEN 0 ELSE ContainerUsage(containers, field, n - 1) + containers[n][field]

RECURSIVE PodsUsage(_, _, _, _)
PodsUsage(items, pods, field, n) ==
    IF n = 0 THEN 0
    ELSE PodsUsage(items, pods, field, n - 1)
            + (IF n \in pods
               THEN ContainerUsage(items[n].containers, field, Len(items[n].containers))
               ELSE 0)

\* x is total / count / unit
IsAverage(x, total, count, unit) == x[1] * count * unit = total * x[2]

\* C21: CollectMetrics succeeds exactly when the provider lists at least one
\* pod with label app = target name or a name starting with "<target name>-";
\* the results are the CPU (cores) and memory (GB) summed over the containers
\* of the matched pods, divided by the number of matched pods; with positive
\* usage on a matched pod both results are > 0.
C21_CollectMetrics ==
    lastCall.op = "CollectMetrics"
        => /\ lastCall.result.err = "nil"
                <=> (~lastCall.answer.err
                     /\ PodsOfTarget(lastCall.answer.items, hpa.name) # {})
           /\ lastCall.result.err = "nil"
                => /\ IsAverage(lastCall.result.cpu,
                                PodsUsage(lastCall.answer.items,
                                          PodsOfTarget(lastCall.answer.items, hpa.name),
                                          "cpu", Len(lastCall.answer.items)),
                                Cardinality(PodsOfTarget(lastCall.answer.items, hpa.name)),
                                MilliPerCore)
                   /\ IsAverage(lastCall.result.memory,
                                PodsUsage(lastCall.answer.items,
                                          PodsOfTarget(lastCall.answer.items, hpa.name),
                                          "memory", Len(lastCall.answer.items)),
                                Cardinality(PodsOfTarget(lastCall.answer.items, hpa.name)),
                                QuantaPerGB)
                   /\ (\E i \in PodsOfTarget(lastCall.answer.items, hpa.name) :
                        \E c \in 1..Len(lastCall.answer.items[i].containers) :
                           /\ lastCall.answer.items[i].containers[c].cpu > 0
                           /\ lastCall.answer.items[i].containers[c].memory > 0)
                        => /\ RLess(RZero, lastCall.result.cpu)
                           /\ RLess(RZero, lastCall.result.memory)

\* a matched pod without containers next to an unmatched pod with usage:
\* the average is over the one matched pod and is zero
C21_Witness ==
    /\ lastCall.op = "CollectMetrics"
    /\ lastCall.result = [err |-> "nil", cpu |-> RZero, memory |-> RZero]
    /\ Len(lastCall.answer.items) = 2
    /\ lastCall.answer.items[1].containers = <<>>
    /\ lastCall.answer.items[2].app = <<"redis">>

(***************************************************************************)
(* Properties of cycles run concurrently.                                  *)
(***************************************************************************)
\* the samples the engine holds for the target
RecordedSamples ==
    IF impl = "http" THEN historyData[WorkloadKey(hpa.namespace, hpa.name)]
    ELSE predictor.data

\* C22: at most one cycle of a workload key is inside the append of the
\* history (or of the forecaster) at a time, and once every call has
\* returned each recorded sample is present (the window is not reached).
C22_Serialized ==
    /\ InFlight(lastCall) <= 1
    /\ InFlight(lastCall) = 0 => Len(RecordedSamples) = lastCall.returned

(***************************************************************************)
(* Properties of a cycle whose context is cancelled.                       *)
(***************************************************************************)
\* C23: a cycle entered with a cancelled context returns an error, makes no
\* call after the metrics fetch, and does not write status.
C23_CancelledStopsAtFetch ==
    [][Returned(lastCall')
       => /\ lastCall'.err # "nil"
          /\ lastCall'.calls = <<"GetPodMetrics">>
          /\ status' = status]_vars

\* C24: CalculateError(actual, predicted) is |actual - predicted| / actual:
\* the result times actual is the distance between the two values;
\* CalculateError(2.0, 1.5) = 0.25; for actual > 0 the result is >= 0 and
\* it is at most 1 exactly when 0 <= predicted <= 2 * actual.
Distance(x, y) == IF RLess(x, y) THEN RSub(y, x) ELSE RSub(x, y)

C24_CalculateError ==
    (lastCall.op = "CalculateError" /\ lastCall.actual # RZero)
        => /\ lastCall.result.kind = "num"
           /\ RMul(lastCall.result.value, lastCall.actual)
                  = Distance(lastCall.actual, lastCall.predicted)
           /\ (lastCall.actual = RInt(2) /\ lastCall.predicted = <<3, 2>>)
                  => lastCall.result.value = <<1, 4>>
           /\ RLess(RZero, lastCall.actual)
                  => /\ ~RLess(lastCall.result.value, RZero)
                     /\ ~RLess(RInt(1), lastCall.result.value)
                            <=> /\ ~RLess(lastCall.predicted, RZero)
                                /\ ~RLess(RMul(RInt(2), lastCall.actual),
                                          lastCall.predicted)

C24_Witness ==
    /\ lastCall.op = "CalculateError"
    /\ lastCall.actual = RInt(2)
    /\ lastCall.predicted = <<3, 2>>
    /\ lastCall.result = Float("num", <<1, 4>>)

\* C25: the pre-warm step replaces the desired count by
\* max(desired, ceil(minReplicas * peak)) only when the strategy pre-warms
\* (Periodic) and the forecast peak exceeds the strategy threshold 0.7; under
\* Stable and Burst, or with a peak <= 0.7, the desired count is the value
\* CalculateDesiredReplicas returned.  The step never lowers the count.
Peak(values) ==
    IF values = <<>> THEN RZero
    ELSE CHOOSE v \in {RZero} \cup {values[i] : i \in 1..Len(values)} :
             \A i \in 1..Len(values) : ~RLess(v, values[i])

CeilOf(x) == CHOOSE n \in 0..(MaxMinReplicas + 1) * 4 : ~RLess(RInt(n), x) /\ RLess(RInt(n - 1), x)

Larger(a, b) == IF a >= b THEN a ELSE b

C25_PreWarm ==
    (lastCall.op = "PreWarm" /\ lastCall.err = "nil")
        => /\ lastCall.desired >= lastCall.calcDesired
           /\ IF /\ lastCall.pattern = PatternPeriodic
                 /\ RLess(<<7, 10>>, Peak(lastCall.answer.values))
              THEN lastCall.desired
                       = Larger(lastCall.calcDesired,
                                CeilOf(RMul(RInt(lastCall.minReplicas),
                                            Peak(lastCall.answer.values))))
              ELSE lastCall.desired = lastCall.calcDesired
           /\ lastCall.asked <=> lastCall.pattern = PatternPeriodic

C25_Witness ==
    /\ lastCall.op = "PreWarm"
    /\ lastCall.pattern = PatternPeriodic
    /\ lastCall.minReplicas = 2
    /\ lastCall.calcDesired = 3
    /\ Peak(lastCall.answer.values) = RInt(3)
    /\ lastCall.desired = 6

\* C26: a ScaleWorkload cycle of part_004 makes its steps in the order
\* collect metrics, classify, forecast and compute the desired count, read
\* the current replicas, gate or apply, in one pass: the calls it made are
\* an initial part of that sequence, each step's result exists only if the
\* steps before it succeeded, the replicas are sent to the orchestrator only
\* after every earlier step succeeded and the gate did not fire, and the
\* step that failed is the last one made.
CycleSteps(pattern) ==
    <<"GetPodMetrics", "queryPrediction", "queryPrediction">>
        \o (IF pattern = PatternPeriodic THEN <<"queryPrediction">> ELSE <<>>)
        \o <<"GetDeployment", "GetScale", "UpdateScale">>

FailedStep(err) ==
    CASE err \in {"metrics", "nopods"} -> "GetPodMetrics"
      [] err = "predict" -> "queryPrediction"
      [] err = "getreplicas" -> "GetDeployment"
      [] err = "getscale" -> "GetScale"
      [] err = "updatescale" -> "UpdateScale"

C26_StepOrder ==
    (Returned(lastCall) /\ impl = "http")
        => /\ IsPrefix(lastCall.calls, CycleSteps(lastCall.pattern))
           /\ lastCall.err # "nil"
                  => lastCall.calls[Len(lastCall.calls)] = FailedStep(lastCall.err)
           /\ lastCall.pattern # NoValue <=> lastCall.err \notin {"metrics", "nopods"}
           /\ lastCall.calcDesired # NoValue => lastCall.pattern # NoValue
           /\ lastCall.desired # NoValue => lastCall.calcDesired # NoValue
           /\ lastCall.current # NoValue
                  => lastCall.desired # NoValue /\ Made(lastCall, "GetDeployment")
           /\ lastCall.gated
                  => /\ lastCall.current # NoValue
                     /\ lastCall.err = "nil"
                     /\ lastCall.calls[Len(lastCall.calls)] = "GetDeployment"
           /\ lastCall.sent # <<>>
                  => /\ ~lastCall.gated
                     /\ lastCall.current # NoValue
                     /\ lastCall.err \in {"nil", "updatescale"}
                     /\ lastCall.calls = CycleSteps(lastCall.pattern)
           /\ (lastCall.err = "nil" /\ ~lastCall.gated)
                  => /\ lastCall.calls = CycleSteps(lastCall.pattern)
                     /\ replicas = lastCall.desired

C26_Witness ==
    /\ Returned(lastCall)
    /\ impl = "http"
    /\ lastCall.err = "nil"
    /\ ~lastCall.gated
    /\ lastCall.pattern = PatternPeriodic
    /\ Len(lastCall.calls) = 7
    /\ replicas = lastCall.desired
    /\ replicas # lastCall.current

\* C27: no retry inside a cycle: one ScaleWorkload invocation queries the
\* metrics provider exactly once, reads the deployment and the scale at most
\* once, sends the replica count at most once, and makes no further call
\* after an external call failed.
Occurrences(calls, name) == Cardinality({i \in 1..Len(calls) : calls[i] = name})

ExternalFailure(call) ==
    \/ call.err \in {"metrics", "getreplicas", "getscale", "updatescale"}
    \/ impl = "http" /\ call.err = "predict"

C27_NoRetry ==
    Returned(lastCall)
        => /\ Occurrences(lastCall.calls, "GetPodMetrics") = 1
           /\ lastCall.calls[1] = "GetPodMetrics"
           /\ Occurrences(lastCall.calls, "GetDeployment") <= 1
           /\ Occurrences(lastCall.calls, "GetScale") <= 1
           /\ Occurrences(lastCall.calls, "UpdateScale") <= 1
           /\ Len(lastCall.sent) = Occurrences(lastCall.calls, "UpdateScale")
           /\ ExternalFailure(lastCall)
                  => /\ lastCall.calls[Len(lastCall.calls)] = FailedStep(lastCall.err)
                     /\ lastCall.err # "predict"
                            => Occurrences(lastCall.calls, FailedStep(lastCall.err)) = 1

C27_Witness ==
    /\ Returned(lastCall)
    /\ lastCall.err = "updatescale"
    /\ lastCall.sent = <<lastCall.desired>>
    /\ replicas # lastCall.desired

\* C28: a change held back by the delay check is eventually applied.  With
\* every external call succeeding and Reconcile requeueing the target after
\* each cycle, a gated cycle (it returned nil, and the longest delay after
\* lastScaledTime still lies within the clock's range) is followed by a cycle
\* that sets the replicas and updates the status; and a cycle is gated only
\* while less than its strategy's delay has passed since lastScaledTime.
GatedCycle == Returned(lastCall) /\ lastCall.gated /\ lastCall.err = "nil"

AppliedCycle ==
    /\ Returned(lastCall)
    /\ lastCall.err = "nil"
    /\ ~lastCall.gated
    /\ lastCall.sent = <<lastCall.desired>>
    /\ replicas = lastCall.desired
    /\ status.currentReplicas = lastCall.desired
    /\ status.lastScaledTime = now

C28_GatedEventuallyApplied ==
    /\ (GatedCycle /\ status.lastScaledTime + StableDelay <= MaxTime) ~> AppliedCycle
    /\ [](GatedCycle => /\ lastCall.current # lastCall.desired
                        /\ status.lastScaledTime # NoTime
                        /\ now - status.lastScaledTime
                               < StrategyFor(lastCall.pattern).delay)

\* the cycle at lastScaledTime + delay applies a change that every cycle
\* since lastScaledTime had to hold back
C28_Witness ==
    /\ AppliedCycle
    /\ lastCall.current # lastCall.desired
    /\ lastCall.pattern = PatternStable
    /\ now = StableDelay
    /\ Len(historyData[WorkloadKey(hpa.namespace, hpa.name)]) >= 3

\* C29: the periodicity test uses the forecaster's autocorrelation: for the
\* series a GetStrategy call classified (4 samples or more) and every lag in
\* 1..len/2, detectPeriodicity has computed a value for that lag and the
\* value equals autoCorrelation of the series at that lag.
PeriodicityValues == autocorrArray(Classified, calculateMean(Classified))

LagEvaluated(lag) == lag + 1 <= Len(PeriodicityValues)

C29_SameAutocorrelation ==
    (lastCall.op = "GetStrategy" /\ Len(Classified) >= 4)
        => \A lag \in 1..(Len(Classified) \div 2) :
               /\ LagEvaluated(lag)
               /\ PeriodicityValues[lag + 1] = autoCorrelation(Classified, lag)

\* C30: with fewer than 2 stored points the classification is Stable: the
\* first call for a workload key returns Stable whatever the value, every
\* call returns Stable when the window size is 0 or 1, and the strategy of
\* that classification has the Stable policy (delay 5 min, no pre-warm).
FirstCallForKey == Len(lastCall.appended[lastCall.key]) = 1

C30_FewPointsStable ==
    lastCall.op = "AnalyzePattern"
        => /\ (\/ Len(historyData[lastCall.key]) < 2
               \/ FirstCallForKey
               \/ windowSize(historyWindow, sampleInterval) <= 1)
                  => /\ lastCall.pattern = PatternStable
                     /\ StrategyFor(lastCall.pattern).delay = StableDelay
                     /\ ~StrategyFor(lastCall.pattern).preWarm
           /\ windowSize(historyWindow, sampleInterval) <= 1
                  => Len(historyData[lastCall.key]) < 2
           /\ FirstCallForKey => Len(historyData[lastCall.key]) < 2

\* a third call for a key with a window of one, after values 0 and 3
C30_Witness ==
    /\ lastCall.op = "AnalyzePattern"
    /\ windowSize(historyWindow, sampleInterval) = 1
    /\ Len(lastCall.appended[lastCall.key]) = 3
    /\ lastCall.appended[lastCall.key][1] = RInt(0)
    /\ lastCall.appended[lastCall.key][2] = RInt(3)
    /\ lastCall.pattern = PatternStable

\* C31: two cycles of part_004 that each change the orchestrator's replica
\* count are at least the later cycle's strategy delay apart (so at least
\* 30 s), whatever pattern the earlier cycle found.  Stated step by step: a
\* cycle that changes the count stamps lastScaledTime with its own time;
\* the stamp is never cleared or moved back; while there is no stamp the
\* count is still the initial one; and a cycle changes the count only if
\* there is no stamp or the stamp is at least its strategy's delay old.
ChangesCount == Returned(lastCall') /\ replicas' # replicas

C31_ChangesApart ==
    [][/\ ChangesCount
          => /\ status'.lastScaledTime = now
             /\ status.lastScaledTime # NoTime
                    => /\ now - status.lastScaledTime
                              >= StrategyFor(lastCall'.pattern).delay
                       /\ now - status.lastScaledTime >= BurstDelay
       /\ status.lastScaledTime # NoTime
             => /\ status'.lastScaledTime # NoTime
                /\ status'.lastScaledTime >= status.lastScaledTime
       /\ status.lastScaledTime = NoTime => replicas = hpa.initReplicas]_vars

\* a count changed a second time, by a cycle that selected the Burst strategy
C31_Witness ==
    /\ ReturnedNil(lastCall)
    /\ lastCall.pattern = PatternBurst
    /\ lastCall.current # hpa.initReplicas
    /\ lastCall.current # lastCall.desired
    /\ replicas = lastCall.desired
    /\ status.lastScaledTime = now

\* C32: a part_004 cycle whose CollectMetrics fails leaves every workload
\* history as it was; a cycle whose CollectMetrics succeeds appends exactly
\* one sample, the collected CPU usage, to the history of its own key and
\* changes no other history, whether the cycle then fails, is held back by
\* the delay check or applies.
CollectFailed(call) == call.err \in {"metrics", "nopods"}

C32_OneSamplePerCycle ==
    [][(Returned(lastCall') /\ impl = "http")
       => IF CollectFailed(lastCall')
          THEN historyData' = historyData
          ELSE /\ historyData'[WorkloadKey(hpa.namespace, hpa.name)]
                      = Append(historyData[WorkloadKey(hpa.namespace, hpa.name)],
                               CollectMetrics(lastCall'.podMetrics, hpa.name).cpu)
               /\ \A k \in Keys \ {WorkloadKey(hpa.namespace, hpa.name)} :
                      historyData'[k] = historyData[k]]_vars

\* a held-back cycle whose sample is the last one of its key's history, the
\* other key's history being empty
C32_Witness ==
    /\ Returned(lastCall)
    /\ lastCall.gated
    /\ Len(historyData[WorkloadKey(hpa.namespace, hpa.name)]) = Len(SteadySeed) + 2
    /\ historyData[WorkloadKey(hpa.namespace, hpa.name)][Len(SteadySeed) + 2]
           = CollectMetrics(lastCall.podMetrics, hpa.name).cpu
    /\ historyData[WorkloadKey(hpa.namespace, hpa.name)][Len(SteadySeed) + 2]
           # historyData[WorkloadKey(hpa.namespace, hpa.name)][Len(SteadySeed) + 1]
    /\ \A k \in Keys \ {WorkloadKey(hpa.namespace, hpa.name)} : historyData[k] = <<>>

\* C33: on a new part_005 engine (ARIMA(2,1,1)) whose metrics collection
\* succeeds in every cycle, each cycle appends its sample to the forecaster
\* before forecasting, also when the forecast fails; the forecast fails for
\* insufficient data in exactly the first 3 cycles and in no later one.
\* (With collection succeeding every time the buffer length after a cycle is
\* the number of cycles run.)
C33_WarmUp ==
    [][Returned(lastCall')
       => /\ predictor'.data
                 = Append(predictor.data,
                          LoadSample(hpa,
                                     CollectMetrics(lastCall'.podMetrics, hpa.name).cpu,
                                     CollectMetrics(lastCall'.podMetrics, hpa.name).memory))
          /\ predictor'.timestamps = Append(predictor.timestamps, now)
          /\ lastCall'.err = "predict" <=> Len(predictor'.data) <= 3
          /\ Len(predictor'.data) <= 3 => lastCall'.calls = <<"GetPodMetrics">>]_vars

\* the fourth cycle: the forecast is made and the count is applied
C33_Witness ==
    /\ ReturnedNil(lastCall)
    /\ impl = "arima"
    /\ Len(predictor.data) = 4
    /\ lastCall.sent # <<>>
    /\ replicas = lastCall.desired

\* C34: after a ScaleWorkload call that returned nil and was stopped neither
\* by the delay check (part_004) nor by the unchanged-count check
\* (part_005), status.currentReplicas is the count the cycle wrote to the
\* scale subresource and status.predictedLoad is the load ratio
\* CalculateDesiredReplicas returned in that cycle.
StoppedEarly(call) ==
    \/ call.gated
    \/ impl = "arima" /\ call.desired = call.current

C34_StatusMatchesUpdate ==
    (ReturnedNil(lastCall) /\ ~StoppedEarly(lastCall))
        => /\ Len(lastCall.sent) = 1
           /\ status.currentReplicas = lastCall.sent[1]
           /\ replicas = lastCall.sent[1]
           /\ status.predictedLoad = lastCall.loadRatio

\* a part_004 cycle whose pre-warm step raised the count: the status holds
\* the raised count and the ratio of the calculation
C34_Witness ==
    /\ ReturnedNil(lastCall)
    /\ ~StoppedEarly(lastCall)
    /\ lastCall.desired # lastCall.calcDesired
    /\ status.currentReplicas = lastCall.desired
    /\ lastCall.desired # lastCall.current
    /\ status.predictedLoad # RZero

\* C35: a CalculateDesiredReplicas that runs while status.currentReplicas is 0
\* returns minReplicas whatever the usage and the forecast; a target with
\* minReplicas = 0 whose status count is 0 keeps that count at 0 through
\* every cycle, no count above 0 is handed to the orchestrator and the
\* deployment's replicas never rise.
C35_ZeroStaysZero ==
    [][ Returned(lastCall') =>
          /\ (status.currentReplicas = 0 /\ lastCall'.calcDesired # NoValue)
                => lastCall'.calcDesired = hpa.minReplicas
          /\ (status.currentReplicas = 0 /\ hpa.minReplicas = 0)
                => /\ status'.currentReplicas = 0
                   /\ replicas' <= replicas
                   /\ \A i \in 1..Len(lastCall'.sent) : lastCall'.sent[i] = 0 ]_vars

\* a cycle of the target that allows zero replicas ran on a load above the
\* thresholds (load ratio 30/7), and the deployment was set to 0
C35_Witness ==
    /\ ReturnedNil(lastCall)
    /\ hpa.minReplicas = 0
    /\ status.currentReplicas = 0
    /\ RLess(RInt(1), lastCall.loadRatio)
    /\ lastCall.calcDesired = 0
    /\ lastCall.sent = <<0>>
    /\ replicas = 0
    /\ hpa.initReplicas = 3

\* C36: in every ScaleWorkload cycle the workload whose pod metrics are
\* collected, the workload key of the history and the deployment that is read
\* and set are the same namespace/name, also for an HPAModifier whose own
\* namespace is not the one of its targetRef.
C36_SameWorkload ==
    Returned(lastCall)
        => /\ lastCall.key # NoKey => lastCall.key = lastCall.metricsOf
           /\ lastCall.deployment # NoKey => lastCall.deployment = lastCall.metricsOf

PredictedNil(call) == call.op = "Predict" /\ call.result.err = "nil"
SameValues(later, earlier) ==
    \A i \in 1..Len(later), j \in 1..Len(earlier) : later[i].Value = earlier[j].Value

\* C37: a Predict that succeeds returns `steps` points that all carry the
\* one-step value and leaves the buffer as it was; a second Predict with no
\* AddDataPoint in between returns that value again (the same points for the
\* same steps); the peak over the horizon, taken from 0 as the callers take
\* it, is that of the one-step value for every steps >= 1 and 0 for steps = 0.
C37_NoFeedback ==
    [][ PredictedNil(lastCall') =>
          \E value \in {predictValue(predictor)} :
              /\ predictor' = predictor
              /\ Len(lastCall'.result.points) = lastCall'.steps
              /\ \A i \in 1..lastCall'.steps : lastCall'.result.points[i].Value = value
              /\ PredictedNil(lastCall) =>
                    /\ SameValues(lastCall'.result.points, lastCall.result.points)
                    /\ lastCall'.steps = lastCall.steps => lastCall'.result = lastCall.result
              /\ MaxLoad(forecastValues(lastCall'.result.points))
                     = IF lastCall'.steps = 0 THEN RZero ELSE RMax(RZero, value) ]_vars

\* a Predict over the longest horizon returned a value above 0 for every step
C37_Witness ==
    /\ PredictedNil(lastCall)
    /\ lastCall.steps = MaxSteps
    /\ Len(lastCall.result.points) >= 2
    /\ RLess(RZero, lastCall.result.points[1].Value)
    /\ lastCall.result.points[2].Value = lastCall.result.points[1].Value
    /\ Len(predictor.data) = MaxBuffer
    /\ predictor.p = 1

====
